---- MODULE Spec2Model ----
(***************************************************************************)
(* Betting-line reconciliation engine of src/database_updater/betting.py:  *)
(* the Betting table, the merge of save_betting_data, the cache gate       *)
(* _should_use_cache, the tier partition and the batch run of              *)
(* update_betting_data with its ESPN (tier 1), Covers by-date (tier 2) and *)
(* Covers backfill (tier 3) writers.                                       *)
(*                                                                         *)
(* Time is counted in ticks of 30 minutes.  A Python None / SQL NULL is    *)
(* the empty tuple, a present value v is the one-element tuple <<v>>.      *)
(* A Python dict is a function whose DOMAIN is the set of keys present.    *)
(***************************************************************************)
EXTENDS Integers, Sequences, FiniteSets, TLC

VARIABLES
    now,        \* wall clock, in ticks
    games,      \* Games table: game_id -> [date_time_utc, status, home_team, away_team]
    db,         \* Betting table: game_id -> row, DOMAIN db = the stored rows
    mapping,    \* ESPNGameMapping table: game_id -> espn_event_id or None
    ledger,     \* CoversAttempts table: date -> [last_attempt_datetime, match_count]
    pc,         \* position of the run of update_betting_data: idle, espn, covers
    run,        \* locals of the run in progress
    stats,      \* the stats dict of the current (or last) run
    backfills,  \* number of calls of update_betting_backfill so far
    lastSave,   \* merge driver: what the last update it merged carried
    call,       \* selector driver: the last call of should_fetch_betting
    sched       \* schedule updater: ScheduleCache table and the current season

vars == <<now, games, db, mapping, ledger, pc, run, stats, backfills, lastSave, call, sched>>

-----------------------------------------------------------------------------
(* Bounds of the model *)

MaxNow == 2          \* the clock stops advancing here
MaxVal == 2          \* line values are 1..MaxVal
MaxBackfills == 1    \* calls of update_betting_backfill in a behaviour

TicksPerHour == 2
TicksPerDay == 24 * TicksPerHour

(* Program constants *)
FUTURE_CUTOFF_DAYS == 2
ESPN_LOOKBACK_DAYS == 7
CACHE_HOURS == 1

-----------------------------------------------------------------------------
(* Values *)

None == << >>
Some(v) == <<v>>
Vals == 1..MaxVal
Max(a, b) == IF a >= b THEN a ELSE b
Get(d, k, default) == IF k \in DOMAIN d THEN d[k] ELSE default

GameIds == {"g1", "g2"}

(* datetime.isoformat().replace("+00:00", "Z") and its inverse
   datetime.fromisoformat(s.replace("Z", "+00:00")).  A stored timestamp is
   the pair <<t, "Z">>; any other suffix does not parse. *)
IsoZ(t) == <<t, "Z">>
ParseIso(s) == IF s # None /\ s[2] = "Z" THEN Some(s[1]) ELSE None

-----------------------------------------------------------------------------
(* Betting table schema *)

LineKeys == {"spread", "spread_home_odds", "spread_away_odds", "total",
             "over_odds", "under_odds", "ml_home", "ml_away"}
Phases == {"opening", "current", "closing"}
EspnCol(phase, k) == "espn_" \o phase \o "_" \o k
PhaseCols == [phase \in Phases |-> {EspnCol(phase, k) : k \in LineKeys}]
EspnCols(phase) == PhaseCols[phase]
(* The key of the fetched line group that a column is filled from. *)
KeyOfCol ==
    [c \in UNION {PhaseCols[p] : p \in Phases} |->
        CHOOSE k \in LineKeys : \E p \in Phases : EspnCol(p, k) = c]

CoversCols == {"covers_closing_spread", "covers_closing_total"}
ResultCols == {"spread_result", "ou_result"}
ClosingCols == EspnCols("closing") \cup CoversCols

BETTING_SCHEMA ==
    {"game_id", "espn_event_id"}
    \cup EspnCols("opening") \cup EspnCols("current") \cup EspnCols("closing")
    \cup CoversCols \cup ResultCols
    \cup {"lines_finalized", "created_at", "updated_at"}

(* The columns a merge may fill: everything but the key, the flag and the
   two timestamps. *)
DataCols == BETTING_SCHEMA \ {"game_id", "lines_finalized", "created_at", "updated_at"}

-----------------------------------------------------------------------------
(* ESPN line extraction *)

(* _convert_odds: None stays None, a number becomes an int, anything else
   (ValueError/TypeError) becomes None.  A raw odds value is None,
   <<"num", n>> or <<"str", 0>>. *)
_convert_odds(odds_value) ==
    IF odds_value = None THEN None
    ELSE IF odds_value[1] = "num" THEN Some(odds_value[2])
    ELSE None

(* _extract_espn_lines for one line type.  raw is the part of the pickcenter
   object for that line type: the home spread line and the two spread odds,
   the total line and the over/under odds, the two moneyline odds. *)
_extract_espn_lines(raw) ==
    LET spreadPart ==
            IF raw.line # None
            THEN [spread |-> raw.line,
                  spread_home_odds |-> _convert_odds(raw.home_odds),
                  spread_away_odds |-> _convert_odds(raw.away_odds)]
            ELSE << >>
        totalPart ==
            IF raw.total # None
            THEN [total |-> raw.total,
                  over_odds |-> _convert_odds(raw.over_odds),
                  under_odds |-> _convert_odds(raw.under_odds)]
            ELSE << >>
        mlHome == IF raw.ml_home # None
                  THEN [ml_home |-> _convert_odds(raw.ml_home)] ELSE << >>
        mlAway == IF raw.ml_away # None
                  THEN [ml_away |-> _convert_odds(raw.ml_away)] ELSE << >>
        lines == spreadPart @@ totalPart @@ mlHome @@ mlAway
    IN  IF DOMAIN lines # {} THEN Some(lines) ELSE None

Odds110 == <<"num", 110>>

RawLines(line, total, ml) ==
    [line |-> line, home_odds |-> IF line = None THEN None ELSE Odds110,
     away_odds |-> IF line = None THEN None ELSE Odds110,
     total |-> total, over_odds |-> IF total = None THEN None ELSE Odds110,
     under_odds |-> IF total = None THEN None ELSE Odds110,
     ml_home |-> ml, ml_away |-> ml]

RawNothing == RawLines(None, None, None)

(* The raw pickcenter parts fed to the extraction by the merge driver:
   nothing, a spread with moneylines, a total alone. *)
RawMerge ==
    {RawNothing} \cup {RawLines(Some(v), None, Odds110) : v \in Vals}

(* The opening part of an update of the merge driver: nothing, or one of
   two spreads. *)
RawOpening ==
    {RawNothing, RawLines(Some(1), None, Odds110), RawLines(Some(2), None, Odds110)}

(* ... and by the ESPN summary endpoint in a run: nothing, a spread alone,
   a total alone, moneylines alone. *)
RawOdds ==
    {RawNothing}
    \cup {RawLines(Some(v), None, None) : v \in Vals}
    \cup {RawLines(None, Some(1), None), RawLines(None, None, Odds110)}

-----------------------------------------------------------------------------
(* save_betting_data *)

IsEspn(data) == "espn_event_id" \in DOMAIN data
IsCovers(data) ==
    "covers_closing_spread" \in DOMAIN data \/ "covers_closing_total" \in DOMAIN data
IsPlaceholder(data) == ~IsEspn(data) /\ ~IsCovers(data)

(* The eight columns of one phase, filled with lines.get(key). *)
PhaseFields(phase, lines) ==
    [c \in EspnCols(phase) |-> Get(lines, KeyOfCol[c], None)]

(* Variant: the current-or-closing group always goes to the closing slot. *)
EspnFields_AlwaysClosing(data, ts) ==
    LET opening == IF "opening" \in DOMAIN data
                   THEN PhaseFields("opening", data["opening"]) ELSE << >>
        lines == IF "current_or_closing" \in DOMAIN data
                 THEN PhaseFields("closing", data["current_or_closing"])
                 ELSE << >>
    IN  [espn_event_id |-> Get(data, "espn_event_id", None)]
        @@ opening @@ lines
        @@ [lines_finalized |-> Get(data, "lines_finalized", 0),
            spread_result |-> Get(data, "spread_result", None),
            ou_result |-> Get(data, "ou_result", None),
            updated_at |-> ts]

EspnFields(data, ts) ==
    LET is_completed == Get(data, "game_status", 0) = 3
        opening == IF "opening" \in DOMAIN data
                   THEN PhaseFields("opening", data["opening"]) ELSE << >>
        lines == IF "current_or_closing" \in DOMAIN data
                 THEN PhaseFields(IF is_completed THEN "closing" ELSE "current",
                                  data["current_or_closing"])
                 ELSE << >>
    IN  [espn_event_id |-> Get(data, "espn_event_id", None)]
        @@ opening @@ lines
        @@ [lines_finalized |-> Get(data, "lines_finalized", 0),
            spread_result |-> Get(data, "spread_result", None),
            ou_result |-> Get(data, "ou_result", None),
            updated_at |-> ts]

CoversFields(data, ts) ==
    [covers_closing_spread |-> Get(data, "covers_closing_spread", None),
     covers_closing_total |-> Get(data, "covers_closing_total", None),
     spread_result |-> Get(data, "spread_result", None),
     ou_result |-> Get(data, "ou_result", None),
     lines_finalized |-> Get(data, "lines_finalized", 1),
     updated_at |-> ts]

(* Variant: the placeholder branch stamps the time of the save. *)
PlaceholderFields_StampNow(data, ts) ==
    [updated_at |-> ts]

PlaceholderFields(data, ts) ==
    [updated_at |-> Get(data, "updated_at", ts)]

BuildFields(data, ts) ==
    IF IsEspn(data) THEN EspnFields(data, ts)
    ELSE IF IsCovers(data) THEN CoversFields(data, ts)
    ELSE PlaceholderFields(data, ts)

(* Variant: a plain assignment, field = ? *)
Coalesce_Assign(value, field) == value

(* Variant: COALESCE(field, ?), the stored value wins. *)
Coalesce_KeepStored(value, field) == IF field # None THEN field ELSE value

(* COALESCE(?, field) *)
Coalesce(value, field) == IF value # None THEN value ELSE field

(* Variant: lines_finalized = ? instead of MAX(lines_finalized, ?) *)
UpdateRow_Overwrite(row, fields) ==
    [c \in BETTING_SCHEMA |->
        IF c \notin DOMAIN fields THEN row[c]
        ELSE IF c = "updated_at" THEN fields[c]
        ELSE IF c = "lines_finalized" THEN fields[c]
        ELSE IF fields[c] # None THEN fields[c] ELSE row[c]]

(* Variant: INSERT OR REPLACE, columns not named fall back to their default. *)
UpdateRow_Replace(row, fields) ==
    [c \in BETTING_SCHEMA |->
        IF c \in DOMAIN fields THEN fields[c]
        ELSE IF c \in {"game_id", "created_at"} THEN row[c]
        ELSE IF c = "lines_finalized" THEN 0
        ELSE None]

(* Variant: lines_finalized = lines_finalized + ? *)
UpdateRow_CountFlag(row, fields) ==
    LET named == DOMAIN fields
    IN  [c \in BETTING_SCHEMA |->
            IF c \notin named THEN row[c]
            ELSE IF c = "updated_at" THEN fields[c]
            ELSE IF c = "lines_finalized" THEN row[c] + fields[c]
            ELSE Coalesce(fields[c], row[c])]

(* UPDATE Betting SET ... WHERE game_id = ? *)
UpdateRow(row, fields) ==
    LET named == DOMAIN fields
    IN  [c \in BETTING_SCHEMA |->
            IF c \notin named THEN row[c]
            ELSE IF c = "updated_at" THEN fields[c]
            ELSE IF c = "lines_finalized" THEN Max(row[c], fields[c])
            ELSE Coalesce(fields[c], row[c])]

(* Variant: the INSERT leaves lines_finalized to its column default. *)
InsertRow_NoFlag(game_id, fields, ts) ==
    [c \in BETTING_SCHEMA |->
        IF c = "game_id" THEN game_id
        ELSE IF c = "created_at" THEN ts
        ELSE IF c = "lines_finalized" THEN 0
        ELSE IF c \in DOMAIN fields THEN fields[c]
        ELSE IF c = "updated_at" THEN ts
        ELSE None]

(* INSERT INTO Betting (...) VALUES (...): columns not named take their
   default, NULL or 0 for lines_finalized. *)
InsertRow(game_id, fields, ts) ==
    [c \in BETTING_SCHEMA |->
        IF c = "game_id" THEN game_id
        ELSE IF c = "created_at" THEN ts
        ELSE IF c \in DOMAIN fields THEN fields[c]
        ELSE IF c = "updated_at" THEN ts
        ELSE IF c = "lines_finalized" THEN 0
        ELSE None]

(* Variant: every item is inserted, replacing the row of its game_id. *)
SaveOne_InsertOnly(table, data, ts) ==
    LET game_id == data["game_id"]
        fields == BuildFields(data, ts)
    IN  (game_id :> InsertRow(game_id, fields, ts)) @@ table

(* One iteration of the loop over betting_data_list. *)
SaveOne(table, data, ts) ==
    LET game_id == data["game_id"]
        fields == BuildFields(data, ts)
    IN  IF game_id \in DOMAIN table
        THEN [table EXCEPT ![game_id] = UpdateRow(table[game_id], fields)]
        ELSE (game_id :> InsertRow(game_id, fields, ts)) @@ table

RECURSIVE save_betting_data(_, _, _)
save_betting_data(table, betting_data_list, t) ==
    IF betting_data_list = << >> THEN table
    ELSE save_betting_data(SaveOne(table, Head(betting_data_list), IsoZ(t)),
                           Tail(betting_data_list), t)

(* Variant: a game without a row gets a row of NULLs. *)
get_betting_data_Blank(table, game_id) ==
    IF game_id \in DOMAIN table THEN Some(table[game_id])
    ELSE Some([c \in BETTING_SCHEMA |-> None])

(* get_betting_data: SELECT * FROM Betting WHERE game_id = ?, the row as a
   dict of its columns, or None. *)
get_betting_data(table, game_id) ==
    IF game_id \in DOMAIN table THEN Some(table[game_id]) ELSE None

-----------------------------------------------------------------------------
(* The updates the merge driver hands to save_betting_data: dicts of the
   three formats, with either value of lines_finalized. *)

OptGroup(key, raw) ==
    IF _extract_espn_lines(raw) = None THEN << >>
    ELSE (key :> _extract_espn_lines(raw)[1])

EspnUpdateSet == [g \in GameIds |->
    {[game_id |-> g, espn_event_id |-> Some("e1"), game_status |-> st,
      lines_finalized |-> lf]
     @@ OptGroup("opening", ro) @@ OptGroup("current_or_closing", rc) :
        st \in {1, 3}, lf \in {0, 1},
        ro \in RawOpening, rc \in RawMerge}]
EspnUpdates(g) == EspnUpdateSet[g]

CoversUpdateSet == [g \in GameIds |->
    {[game_id |-> g, covers_closing_spread |-> s, covers_closing_total |-> t,
      spread_result |-> IF s = None THEN None ELSE Some("W"),
      ou_result |-> IF t = None THEN None ELSE Some("O"),
      lines_finalized |-> lf] :
        s \in {None} \cup {Some(v) : v \in Vals}, t \in {None, Some(1)},
        lf \in {0, 1}}]
CoversUpdates(g) == CoversUpdateSet[g]

PlaceholderUpdates(g, t) == {[game_id |-> g, updated_at |-> IsoZ(t)]}

AllUpdates(g, t) == EspnUpdates(g) \cup CoversUpdates(g) \cup PlaceholderUpdates(g, t)

MergeGames == {"g1"}

-----------------------------------------------------------------------------
(* Tier selector and cache gate *)

(* should_fetch_betting: days_away = (game_datetime - now) / 86400 as a
   real number, so the comparisons are made on ticks. *)
(* A Python value that is an int or a str: game_status reaches the selector
   as the integer of Games.status in a run and as a string in the tests.
   An int never equals a str. *)
PyInt(n) == <<"int", n>>
PyStr(x) == <<"str", x>>

(* Variant: the ESPN window is tested before the age of a final game. *)
should_fetch_betting_WindowFirst(game_datetime, game_status, t) ==
    LET delta == game_datetime - t
    IN  IF delta > FUTURE_CUTOFF_DAYS * TicksPerDay
        THEN <<FALSE, "too_far_future">>
        ELSE IF game_status \in {PyInt(2), PyInt(3)}
                \/ delta >= -(ESPN_LOOKBACK_DAYS * TicksPerDay)
        THEN <<TRUE, "espn">>
        ELSE IF game_status = PyInt(3) /\ delta < -(ESPN_LOOKBACK_DAYS * TicksPerDay)
        THEN <<FALSE, "too_old">>
        ELSE <<FALSE, "skip">>

(* days_away = delta.total_seconds() / 86400 is compared in ticks. *)
should_fetch_betting(game_datetime, game_status, t) ==
    LET delta == game_datetime - t
    IN  IF delta > FUTURE_CUTOFF_DAYS * TicksPerDay
        THEN <<FALSE, "too_far_future">>
        ELSE IF game_status = PyInt(3) /\ delta < -(ESPN_LOOKBACK_DAYS * TicksPerDay)
        THEN <<FALSE, "too_old">>
        ELSE IF game_status \in {PyInt(2), PyInt(3)}
                \/ delta >= -(ESPN_LOOKBACK_DAYS * TicksPerDay)
        THEN <<TRUE, "espn">>
        ELSE <<FALSE, "skip">>

(* Variant: no permanent caching, every row is subject to the TTL. *)
_should_use_cache_TtlOnly(existing, game_status, t) ==
    IF existing = None \/ Get(existing[1], "updated_at", None) = None
    THEN FALSE
    ELSE LET updated_at == ParseIso(existing[1]["updated_at"])
         IN  IF updated_at = None THEN FALSE
             ELSE (t - updated_at[1]) < CACHE_HOURS * TicksPerHour

(* Variant: the TTL of the module docstring, 6 hours for a game in progress. *)
_should_use_cache_ByStatus(existing, game_status, t) ==
    IF existing = None \/ Get(existing[1], "updated_at", None) = None
    THEN FALSE
    ELSE
        LET row == existing[1]
            updated_at == ParseIso(row["updated_at"])
            has_closing ==
                \/ Get(row, "espn_closing_spread", None) # None
                \/ Get(row, "covers_closing_spread", None) # None
        IN  IF updated_at = None THEN FALSE
            ELSE IF Get(row, "lines_finalized", None) = 1 /\ has_closing THEN TRUE
            ELSE (t - updated_at[1]) <
                    (IF game_status = 2 THEN 6 ELSE CACHE_HOURS) * TicksPerHour

(* _should_use_cache.  existing is None (no row) or a dict with the keys
   updated_at, lines_finalized, espn_closing_spread, covers_closing_spread. *)
_should_use_cache(existing, game_status, t) ==
    IF existing = None \/ Get(existing[1], "updated_at", None) = None
    THEN FALSE
    ELSE
        LET row == existing[1]
            updated_at == ParseIso(row["updated_at"])
            has_closing ==
                \/ Get(row, "espn_closing_spread", None) # None
                \/ Get(row, "covers_closing_spread", None) # None
        IN  IF updated_at = None THEN FALSE
            ELSE IF Get(row, "lines_finalized", None) = 1 /\ has_closing THEN TRUE
            ELSE (t - updated_at[1]) < CACHE_HOURS * TicksPerHour

(* The columns _fetch_espn_batch selects for the cache checks. *)
CacheCols == {"game_id", "updated_at", "lines_finalized",
              "espn_closing_spread", "covers_closing_spread"}
ExistingBetting(table, game_ids) ==
    [g \in (DOMAIN table \cap game_ids) |-> [c \in CacheCols |-> table[g][c]]]

-----------------------------------------------------------------------------
(* Candidate selection and partition of update_betting_data *)

(* date(date_time_utc): the UTC calendar day of a tick *)
DateOf(t) == t \div TicksPerDay

(* timedelta.days of (t - game_datetime): the floor of the difference in days *)
DaysAgo(game_datetime, t) == (t - game_datetime) \div TicksPerDay

RECURSIVE SortByTime(_, _)
SortByTime(ids, catalog) ==
    IF ids = {} THEN << >>
    ELSE LET first == CHOOSE g \in ids :
                        \A h \in ids : catalog[g].date_time_utc <= catalog[h].date_time_utc
         IN  <<first>> \o SortByTime(ids \ {first}, catalog)

Orderings(ids) ==
    {q \in [1..Cardinality(ids) -> ids] : \A g \in ids : \E i \in DOMAIN q : q[i] = g}

HasClosingSpread(row) ==
    row["espn_closing_spread"] # None \/ row["covers_closing_spread"] # None

(* _get_games_needing_betting_data.  game_ids is None (season mode) or a set
   of ids; with ids the rows come back in an order the query does not fix.
   The result is the set of possible row lists. *)
_get_games_needing_betting_data(catalog, table, game_ids, t) ==
    IF game_ids # None
    THEN Orderings(game_ids[1] \cap DOMAIN catalog)
    ELSE LET future_cutoff == t + FUTURE_CUTOFF_DAYS * TicksPerDay
             need == {g \in DOMAIN catalog :
                        /\ catalog[g].status = 3 \/ catalog[g].date_time_utc <= future_cutoff
                        /\ \/ g \notin DOMAIN table
                           \/ table[g]["lines_finalized"] = 0
                           \/ ~HasClosingSpread(table[g])}
         IN  {SortByTime(need, catalog)}

ExistingFinalized(table, skip_finalized) ==
    IF skip_finalized
    THEN {g \in DOMAIN table : table[g]["lines_finalized"] = 1 /\ HasClosingSpread(table[g])}
    ELSE {}

(* Variant: the window has no limit on the side of the future. *)
InEspnWindow_NoFutureCutoff(game, t) ==
    DaysAgo(game.date_time_utc, t) <= ESPN_LOOKBACK_DAYS

InEspnWindow(game, t) ==
    LET days_ago == DaysAgo(game.date_time_utc, t)
    IN  -FUTURE_CUTOFF_DAYS <= days_ago /\ days_ago <= ESPN_LOOKBACK_DAYS

NeedsCovers(game, t, use_covers) ==
    /\ ~InEspnWindow(game, t)
    /\ use_covers
    /\ game.status = 3
    /\ DaysAgo(game.date_time_utc, t) > ESPN_LOOKBACK_DAYS

(* _filter_failed_covers_dates: a date is dropped while its last attempt is
   younger than 24 hours (matches found) or 6 hours (no match). *)
COVERS_HIT_HOURS == 24
COVERS_MISS_HOURS == 6
(* Variant: one window of 6 hours whatever the match count. *)
_filter_failed_covers_dates_OneWindow(dates, attempts, t) ==
    {d \in dates :
        \/ d \notin DOMAIN attempts
        \/ ~(attempts[d].last_attempt_datetime > t - COVERS_MISS_HOURS * TicksPerHour)}

_filter_failed_covers_dates(dates, attempts, t) ==
    {d \in dates :
        \/ d \notin DOMAIN attempts
        \/ /\ attempts[d].match_count > 0
           /\ ~(attempts[d].last_attempt_datetime > t - COVERS_HIT_HOURS * TicksPerHour)
        \/ /\ attempts[d].match_count = 0
           /\ ~(attempts[d].last_attempt_datetime > t - COVERS_MISS_HOURS * TicksPerHour)}

(* Variant: INSERT OR IGNORE, the entry of the first attempt stays. *)
_record_covers_attempt_KeepFirst(attempts, date_str, match_count, t) ==
    IF date_str \in DOMAIN attempts THEN attempts
    ELSE (date_str :> [last_attempt_datetime |-> t, match_count |-> match_count]) @@ attempts

(* _record_covers_attempt: INSERT OR REPLACE *)
_record_covers_attempt(attempts, date_str, match_count, t) ==
    (date_str :> [last_attempt_datetime |-> t, match_count |-> match_count]) @@ attempts

-----------------------------------------------------------------------------
(* Tier 1: fetch_betting_for_game *)

EspnIds == {"e1"}

(* Variant: the scoreboard is asked first and its answer replaces the
   stored id (INSERT OR REPLACE). *)
get_espn_event_id_Refresh(map, game_id, found) ==
    IF found # None THEN [id |-> found, map |-> [map EXCEPT ![game_id] = found]]
    ELSE [id |-> map[game_id], map |-> map]

(* get_espn_event_id: the cached id if there is one; otherwise the scoreboard
   lookup, whose outcome found is Some(id) (then cached with INSERT OR
   IGNORE) or None (no matching event, or the request failed). *)
get_espn_event_id(map, game_id, found) ==
    IF map[game_id] # None THEN [id |-> map[game_id], map |-> map]
    ELSE IF found # None THEN [id |-> found, map |-> [map EXCEPT ![game_id] = found]]
    ELSE [id |-> None, map |-> map]

(* fetch_espn_betting_data: the two extracted groups, or None when both are
   missing (also: no pickcenter, request failed). *)
fetch_espn_betting_data(raws) ==
    LET result == OptGroup("opening", raws.open)
                  @@ OptGroup("current_or_closing", raws.close)
    IN  IF DOMAIN result # {} THEN Some(result) ELSE None

(* fetch_betting_for_game: result is None or Some(dict); map is the id
   mapping after the call. *)
fetch_betting_for_game(map, game_id, game, t, found, raws) ==
    IF ~should_fetch_betting(game.date_time_utc, PyInt(game.status), t)[1]
    THEN [result |-> None, map |-> map]
    ELSE
        LET lookup == get_espn_event_id(map, game_id, found)
            espn_lines == fetch_espn_betting_data(raws)
        IN  IF lookup.id = None THEN [result |-> None, map |-> lookup.map]
            ELSE IF espn_lines = None THEN [result |-> None, map |-> lookup.map]
            ELSE [result |->
                    Some([game_id |-> game_id, espn_event_id |-> lookup.id,
                          game_status |-> game.status]
                         @@ espn_lines[1]
                         @@ [lines_finalized |->
                                IF game.status = 3
                                   /\ "current_or_closing" \in DOMAIN espn_lines[1]
                                THEN 1 ELSE 0]),
                  map |-> lookup.map]

(* What the summary endpoint may return for the two line types. *)
RawPairs ==
    {[open |-> ro, close |-> rc] :
        ro \in {RawNothing, RawLines(Some(1), None, None)}, rc \in RawOdds}

-----------------------------------------------------------------------------
(* Tier 2 and 3: Covers *)

KnownTeams == {"A", "B", "C", "D"}

(* NBATeamConverter.get_abbreviation: the canonical code of a known team,
   None for the ValueError raised on an unknown one. *)
get_abbreviation(code) == IF code \in KnownTeams THEN Some(code) ELSE None

(* Variant: a pair with an unknown code is unresolved and equals no pair. *)
NormalizePair_Unresolved(home_team, away_team) ==
    IF get_abbreviation(home_team) # None /\ get_abbreviation(away_team) # None
    THEN <<get_abbreviation(home_team)[1], get_abbreviation(away_team)[1]>>
    ELSE <<None, home_team, away_team>>

(* try: normalise both codes; except ValueError: keep both as they are *)
NormalizePair(home_team, away_team) ==
    IF get_abbreviation(home_team) # None /\ get_abbreviation(away_team) # None
    THEN <<get_abbreviation(home_team)[1], get_abbreviation(away_team)[1]>>
    ELSE <<home_team, away_team>>

(* game_lookup.get((date_str, home, away)): the rows of the +-1 day window
   around date_str, in the order the query returned them, the last row with
   the key winning. *)
GameLookup(catalog, rows, date_str, home_team, away_team) ==
    LET hit(g) == /\ DateOf(catalog[g].date_time_utc) \in (date_str - 1)..(date_str + 1)
                  /\ NormalizePair(catalog[g].home_team, catalog[g].away_team)
                        = <<home_team, away_team>>
        hits == SelectSeq(rows, hit)
    IN  IF hits = << >> THEN None ELSE Some(hits[Len(hits)])

(* Variant: finalized on the closing total instead of the closing spread. *)
CoversData_OnTotal(game_id, cg) ==
    [game_id |-> game_id,
     covers_closing_spread |-> cg.spread,
     covers_closing_total |-> cg.total,
     spread_result |-> cg.spread_result,
     ou_result |-> cg.ou_result,
     lines_finalized |-> IF cg.total # None THEN 1 ELSE 0]

(* The betting_data dict built from one matched Covers game. *)
CoversData(game_id, cg) ==
    [game_id |-> game_id,
     covers_closing_spread |-> cg.spread,
     covers_closing_total |-> cg.total,
     spread_result |-> cg.spread_result,
     ou_result |-> cg.ou_result,
     lines_finalized |-> IF cg.spread # None THEN 1 ELSE 0]

(* The loop over covers_games of _fetch_covers_batch for one date: the list
   of betting_data dicts of the games that found a row.  The fuzzy second
   lookup searches the same +-1 day windows as the first and so finds
   nothing the first one missed. *)
RECURSIVE CoversBatch(_, _, _, _)
CoversBatch(catalog, rows, date_str, covers_games) ==
    IF covers_games = << >> THEN << >>
    ELSE
        LET cg == Head(covers_games)
            teams == NormalizePair(cg.home_team, cg.away_team)
            game_id == GameLookup(catalog, rows, date_str, teams[1], teams[2])
            rest == CoversBatch(catalog, rows, date_str, Tail(covers_games))
        IN  IF game_id = None THEN rest
            ELSE <<CoversData(game_id[1], cg)>> \o rest

(* The loop of update_betting_backfill over the games of the team pages:
   exact lookup on (date, home, away) as stored. *)
RECURSIVE BackfillBatch(_, _)
BackfillBatch(catalog, covers_games) ==
    IF covers_games = << >> THEN << >>
    ELSE
        LET cg == Head(covers_games)
            found == {g \in DOMAIN catalog :
                        /\ DateOf(catalog[g].date_time_utc) = cg.game_date
                        /\ catalog[g].home_team = cg.home_team
                        /\ catalog[g].away_team = cg.away_team}
            rest == BackfillBatch(catalog, Tail(covers_games))
        IN  IF found = {} THEN rest
            ELSE <<CoversData(CHOOSE g \in found : TRUE, cg)>> \o rest

(* What Covers may publish about a game: a closing spread with its result,
   a closing total with its result, or both. *)
CoversLines ==
    {[spread |-> s, total |-> t,
      spread_result |-> IF s = None THEN None ELSE Some("W"),
      ou_result |-> IF t = None THEN None ELSE Some("O")] :
        s \in {None, Some(1)}, t \in {None, Some(1)}}
    \ {[spread |-> None, total |-> None, spread_result |-> None, ou_result |-> None]}

CoversGameData(catalog, g, lines) ==
    [game_date |-> DateOf(catalog[g].date_time_utc),
     home_team |-> catalog[g].home_team, away_team |-> catalog[g].away_team]
    @@ lines

RECURSIVE SeqOfSet(_)
SeqOfSet(S) ==
    IF S = {} THEN << >>
    ELSE LET x == CHOOSE y \in S : TRUE IN <<x>> \o SeqOfSet(S \ {x})

(* The pages Covers may serve about a set of played games: any subset of
   them, each with any lines. *)
CoversPages(catalog, played) ==
    UNION {{SeqOfSet({CoversGameData(catalog, g, f[g]) : g \in sub}) :
                f \in [sub -> CoversLines]} : sub \in SUBSET played}

-----------------------------------------------------------------------------
(* What a fetch does on the network, in order: "sleep" is time.sleep, "get"
   is requests.get. *)

REQUEST_DELAY_SECONDS == 3

(* Variant: the request is sent at once. *)
MatchupsRequest_NoSleep(delay) == <<"get">>

(* fetch_matchups_for_date: the rate limiting sleep, then the request. *)
MatchupsRequest(delay) ==
    IF delay > 0 THEN <<"sleep", "get">> ELSE <<"get">>

(* fetch_betting_for_game: nothing when the selector says no; else the
   scoreboard request unless the event id is in ESPNGameMapping, and the
   summary request if an event id is known or was found. *)
EspnRequests(map, game, game_id, t) ==
    IF ~should_fetch_betting(game.date_time_utc, PyInt(game.status), t)[1]
    THEN {<< >>}
    ELSE IF map[game_id] # None THEN {<<"get">>}
    ELSE {<<"get">>, <<"get", "get">>}

-----------------------------------------------------------------------------
(* Initial state: empty tables and one of the event catalogs. *)

Game(t, status, home_team, away_team) ==
    [date_time_utc |-> t, status |-> status,
     home_team |-> home_team, away_team |-> away_team]

(* g1 played yesterday, g2 is three days ahead;
   g1 is about to start, g2 is three days ahead;
   g1 and g2 were both played eight days ago;
   g1 was played seven and a half days ago, g2 stays more than two days
   ahead, by one tick when the clock stops. *)
Catalogs ==
    {[g1 |-> Game(-TicksPerDay, 3, "A", "B"), g2 |-> Game(3 * TicksPerDay, 1, "C", "D")],
     [g1 |-> Game(-1, 1, "A", "B"), g2 |-> Game(3 * TicksPerDay, 1, "C", "D")],
     [g1 |-> Game(-8 * TicksPerDay, 3, "A", "B"), g2 |-> Game(-8 * TicksPerDay, 3, "C", "D")],
     [g1 |-> Game(-7 * TicksPerDay - TicksPerDay \div 2, 3, "A", "B"),
      g2 |-> Game(2 * TicksPerDay + MaxNow + 1, 1, "C", "D")]}

(* The stats dict of update_betting_data.  transport is not a key of the
   dict: it records how many games and dates of the run had a request that
   ended in requests.RequestException, which the fetchers catch. *)
ZeroStats ==
    [espn_fetched |-> 0, covers_fetched |-> 0, saved |-> 0, skipped |-> 0,
     cached |-> 0, already_finalized |-> 0, errors |-> 0, transport |-> 0]
ZeroEspnStats == [fetched |-> 0, saved |-> 0, skipped |-> 0, errors |-> 0, cached |-> 0]

(* The locals of a run: the flags, the ESPN games still to visit, the rows
   read for the cache checks, betting_data_batch, the stats of the ESPN
   batch, the Covers dates needed and those still to visit, and the games
   for which ESPN was consulted so far, and now, the time _fetch_espn_batch
   read when it started. *)
IdleRun ==
    [skip_finalized |-> TRUE, use_covers |-> TRUE, queue |-> << >>,
     existing_betting |-> << >>, batch |-> << >>, espn_stats |-> ZeroEspnStats,
     covers_dates |-> {}, dates |-> << >>, fetched |-> {}, now |-> 0]

NoSave == [kind |-> "none", lines_finalized |-> 0, spread |-> FALSE]

(* No ScheduleCache entry; the season is the first of the model. *)
NoSchedule == [ScheduleCache |-> << >>, current_season |-> 1]

NoCall ==
    [game_datetime |-> 0, game_status |-> PyInt(0), now |-> 0,
     result |-> <<FALSE, "none">>]

Init ==
    /\ now = 0
    /\ games \in Catalogs
    /\ db = << >>
    /\ mapping = [g \in GameIds |-> None]
    /\ ledger = << >>
    /\ pc = "idle"
    /\ run = IdleRun
    /\ stats = ZeroStats
    /\ backfills = 0
    /\ lastSave = NoSave
    /\ call = NoCall
    /\ sched = NoSchedule

-----------------------------------------------------------------------------
(* The environment of a run *)

(* Time passes, also while a run is under way. *)
Tick ==
    /\ now < MaxNow
    /\ now' = now + 1
    /\ UNCHANGED <<games, db, mapping, ledger, pc, run, stats, backfills, lastSave, call, sched>>

(* The schedule updater moves a game that has started to In Progress and
   then to Final. *)
AdvanceStatus ==
    /\ pc = "idle"
    /\ \E g \in GameIds :
        /\ games[g].status < 3
        /\ games[g].date_time_utc <= now
        /\ games' = [games EXCEPT ![g].status = @ + 1]
    /\ UNCHANGED <<now, db, mapping, ledger, pc, run, stats, backfills, lastSave, call, sched>>

-----------------------------------------------------------------------------
(* update_betting_data *)

(* Where a run goes once the ESPN batch is done (or was empty): to the
   Covers batch over the dates that pass the attempt filter, visited in any
   order, or back to the caller. *)
EnterCovers(r, st) ==
    LET filtered_dates == _filter_failed_covers_dates(r.covers_dates, ledger, now)
    IN  IF r.covers_dates # {} /\ r.use_covers /\ filtered_dates # {}
        THEN /\ pc' = "covers"
             /\ \E order \in Orderings(filtered_dates) :
                    run' = [r EXCEPT !.dates = order]
             /\ stats' = st
        ELSE /\ pc' = "idle"
             /\ run' = IdleRun
             /\ stats' = st

StartRun ==
    /\ pc = "idle"
    /\ \E skip_finalized \in BOOLEAN, use_covers \in BOOLEAN,
          game_ids \in {None, Some(GameIds)} :
        \E rows \in _get_games_needing_betting_data(games, db, game_ids, now) :
            LET existing_finalized == ExistingFinalized(db, skip_finalized)
                keep(g) == g \notin existing_finalized
                kept == SelectSeq(rows, keep)
                espn(g) == InEspnWindow(games[g], now)
                espn_games == SelectSeq(kept, espn)
                covers_dates_needed ==
                    {DateOf(games[kept[i]].date_time_utc) :
                        i \in {j \in DOMAIN kept : NeedsCovers(games[kept[j]], now, use_covers)}}
                st == [ZeroStats EXCEPT !.already_finalized = Len(rows) - Len(kept)]
                r == [IdleRun EXCEPT !.now = now,
                                     !.skip_finalized = skip_finalized,
                                     !.use_covers = use_covers,
                                     !.queue = espn_games,
                                     !.existing_betting =
                                        ExistingBetting(db, {espn_games[i] : i \in DOMAIN espn_games}),
                                     !.covers_dates = covers_dates_needed]
            IN  IF rows = << >>
                THEN /\ pc' = "idle" /\ run' = IdleRun /\ stats' = ZeroStats
                ELSE IF espn_games # << >>
                THEN /\ pc' = "espn" /\ run' = r /\ stats' = st
                ELSE EnterCovers(r, st)
    /\ UNCHANGED <<now, games, db, mapping, ledger, backfills, lastSave, call, sched>>

(* _fetch_espn_batch, one game of the loop *)

BATCH_SIZE == 50

UsesCache(g) ==
    /\ g \in DOMAIN run.existing_betting
    /\ _should_use_cache(Some(run.existing_betting[g]), games[g].status, run.now)

(* Append to betting_data_batch, saving and emptying it at BATCH_SIZE. *)
Enqueue(r, data) ==
    LET batch == Append(r.batch, data)
    IN  IF Len(batch) >= BATCH_SIZE
        THEN /\ db' = save_betting_data(db, batch, now)
             /\ run' = [r EXCEPT !.batch = << >>,
                                 !.espn_stats.saved = @ + Len(batch)]
        ELSE /\ db' = db
             /\ run' = [r EXCEPT !.batch = batch]

(* The games for which a call of fetch_betting_for_game goes to ESPN: the
   tier selector inside it must let the game through. *)
Consulted(g) ==
    IF should_fetch_betting(games[g].date_time_utc, PyInt(games[g].status), now)[1]
    THEN {g} ELSE {}

(* Variant: a cached game is counted as cached only. *)
EspnCached_NotSkipped ==
    /\ pc = "espn" /\ run.queue # << >>
    /\ UsesCache(Head(run.queue))
    /\ run' = [run EXCEPT !.queue = Tail(@),
                          !.espn_stats.cached = @ + 1]
    /\ UNCHANGED <<now, games, db, mapping, ledger, pc, stats, backfills, lastSave, call, sched>>

EspnCached ==
    /\ pc = "espn" /\ run.queue # << >>
    /\ UsesCache(Head(run.queue))
    /\ run' = [run EXCEPT !.queue = Tail(@),
                          !.espn_stats.cached = @ + 1,
                          !.espn_stats.skipped = @ + 1]
    /\ UNCHANGED <<now, games, db, mapping, ledger, pc, stats, backfills, lastSave, call, sched>>

EspnFetched ==
    /\ pc = "espn" /\ run.queue # << >>
    /\ LET g == Head(run.queue) IN
        /\ ~UsesCache(g)
        /\ \E found \in {None} \cup {Some(e) : e \in EspnIds}, raws \in RawPairs :
            LET f == fetch_betting_for_game(mapping, g, games[g], now, found, raws)
            IN  /\ f.result # None
                /\ mapping' = f.map
                /\ Enqueue([run EXCEPT !.queue = Tail(@),
                                       !.fetched = @ \cup {g},
                                       !.espn_stats.fetched = @ + 1],
                           f.result[1])
    /\ UNCHANGED <<now, games, ledger, pc, stats, backfills, lastSave, call, sched>>

(* fetch_betting_for_game returns None: the selector said no, no event was
   found, the summary had no lines, or a request failed with
   requests.RequestException, which get_espn_event_id and
   fetch_espn_betting_data catch and turn into None. *)
EspnNoData ==
    /\ pc = "espn" /\ run.queue # << >>
    /\ LET g == Head(run.queue) IN
        /\ ~UsesCache(g)
        /\ \E found \in {None} \cup {Some(e) : e \in EspnIds}, raws \in RawPairs,
              failed \in BOOLEAN :
            LET f == fetch_betting_for_game(mapping, g, games[g], now, found, raws)
            IN  /\ f.result = None
                /\ failed => Consulted(g) # {}
                /\ mapping' = f.map
                /\ stats' = [stats EXCEPT !.transport = @ + IF failed THEN 1 ELSE 0]
                /\ Enqueue([run EXCEPT !.queue = Tail(@),
                                       !.fetched = @ \cup Consulted(g),
                                       !.espn_stats.skipped = @ + 1],
                           [game_id |-> g, updated_at |-> IsoZ(run.now)])
    /\ UNCHANGED <<now, games, ledger, pc, backfills, lastSave, call, sched>>

(* Variant: the failing game stays at the head of the games to visit. *)
EspnError_Retry ==
    /\ pc = "espn" /\ run.queue # << >>
    /\ ~UsesCache(Head(run.queue))
    /\ should_fetch_betting(games[Head(run.queue)].date_time_utc,
                            PyInt(games[Head(run.queue)].status), now)[1]
    /\ run' = [run EXCEPT !.fetched = @ \cup {Head(run.queue)}]
    /\ UNCHANGED <<now, games, db, mapping, ledger, pc, stats, backfills, lastSave, call, sched>>

(* Variant: the exception ends the loop over the games. *)
EspnError_Abort ==
    /\ pc = "espn" /\ run.queue # << >>
    /\ ~UsesCache(Head(run.queue))
    /\ should_fetch_betting(games[Head(run.queue)].date_time_utc,
                            PyInt(games[Head(run.queue)].status), now)[1]
    /\ run' = [run EXCEPT !.queue = << >>,
                          !.fetched = @ \cup {Head(run.queue)},
                          !.espn_stats.errors = @ + 1]
    /\ UNCHANGED <<now, games, db, mapping, ledger, pc, stats, backfills, lastSave, call, sched>>

(* An exception other than requests.RequestException escapes the fetch. *)
EspnError ==
    /\ pc = "espn" /\ run.queue # << >>
    /\ ~UsesCache(Head(run.queue))
    /\ should_fetch_betting(games[Head(run.queue)].date_time_utc,
                            PyInt(games[Head(run.queue)].status), now)[1]
    /\ run' = [run EXCEPT !.queue = Tail(@),
                          !.fetched = @ \cup {Head(run.queue)},
                          !.espn_stats.errors = @ + 1]
    /\ UNCHANGED <<now, games, db, mapping, ledger, pc, stats, backfills, lastSave, call, sched>>

(* The end of _fetch_espn_batch: the rest of the batch is saved and the
   batch stats are added to the stats of the run. *)
EspnDone ==
    /\ pc = "espn" /\ run.queue = << >>
    /\ db' = save_betting_data(db, run.batch, now)
    /\ LET es == [run.espn_stats EXCEPT !.saved = @ + Len(run.batch)]
           st == [stats EXCEPT !.espn_fetched = @ + es.fetched,
                               !.saved = @ + es.saved,
                               !.skipped = @ + es.skipped,
                               !.cached = @ + es.cached,
                               !.errors = @ + es.errors]
       IN  EnterCovers([run EXCEPT !.batch = << >>, !.espn_stats = es], st)
    /\ UNCHANGED <<now, games, mapping, ledger, backfills, lastSave, call, sched>>

(* _fetch_covers_batch, one date of the loop.  covers_stats is added to the
   stats of the run when the batch returns; adding as the loop goes gives the
   same totals. *)
CoversPlayed(date_str) ==
    {g \in GameIds : /\ games[g].status = 3
                     /\ DateOf(games[g].date_time_utc) \in (date_str - 1)..(date_str + 1)}

LeaveCovers(r) ==
    IF r.dates = << >> THEN pc' = "idle" /\ run' = IdleRun
    ELSE pc' = "covers" /\ run' = r

(* fetch_matchups_for_date returns the games of the page, or the empty
   list when the request failed with requests.RequestException. *)
CoversFetched ==
    /\ pc = "covers" /\ run.dates # << >>
    /\ LET date_str == Head(run.dates) IN
        \E covers_games \in CoversPages(games, CoversPlayed(date_str)),
           rows \in Orderings(GameIds), failed \in BOOLEAN :
            LET batch == CoversBatch(games, rows, date_str, covers_games)
            IN  /\ failed => covers_games = << >>
                /\ db' = save_betting_data(db, batch, now)
                /\ ledger' = _record_covers_attempt(ledger, date_str, Len(batch), now)
                /\ stats' = [stats EXCEPT !.covers_fetched = @ + Len(batch),
                                          !.saved = @ + Len(batch),
                                          !.transport = @ + IF failed THEN 1 ELSE 0]
    /\ LeaveCovers([run EXCEPT !.dates = Tail(@)])
    /\ UNCHANGED <<now, games, mapping, backfills, lastSave, call, sched>>

CoversError ==
    /\ pc = "covers" /\ run.dates # << >>
    /\ ledger' = _record_covers_attempt(ledger, Head(run.dates), 0, now)
    /\ stats' = [stats EXCEPT !.errors = @ + 1]
    /\ LeaveCovers([run EXCEPT !.dates = Tail(@)])
    /\ UNCHANGED <<now, games, db, mapping, backfills, lastSave, call, sched>>

(* update_betting_backfill: the team pages list any of the played games. *)
Backfill ==
    /\ pc = "idle"
    /\ backfills < MaxBackfills
    /\ backfills' = backfills + 1
    /\ \E covers_games \in CoversPages(games, {g \in GameIds : games[g].status = 3}) :
        db' = save_betting_data(db, BackfillBatch(games, covers_games), now)
    /\ UNCHANGED <<now, games, mapping, ledger, pc, run, stats, lastSave, call, sched>>

Next ==
    \/ Tick \/ AdvanceStatus \/ StartRun
    \/ EspnCached \/ EspnFetched \/ EspnNoData \/ EspnError \/ EspnDone
    \/ CoversFetched \/ CoversError
    \/ Backfill

Spec == Init /\ [][Next]_vars

-----------------------------------------------------------------------------
(* Merge driver: direct calls of save_betting_data on one game. *)

InitMerge ==
    /\ Init
    /\ games = [g1 |-> Game(-TicksPerDay, 3, "A", "B"),
                g2 |-> Game(3 * TicksPerDay, 1, "C", "D")]

(* What the witnesses need to know of an update: its format, the flag it
   carries and whether it carries a Covers spread. *)
Carried(data) ==
    [kind |-> IF IsEspn(data) THEN "espn"
              ELSE IF IsCovers(data) THEN "covers" ELSE "placeholder",
     lines_finalized |-> Get(data, "lines_finalized", 0),
     spread |-> Get(data, "covers_closing_spread", None) # None]

Save(list) ==
    /\ db' = save_betting_data(db, list, now)
    /\ lastSave' = Carried(list[1])
    /\ UNCHANGED <<now, games, mapping, ledger, pc, run, stats, backfills, call, sched>>

SaveEspn == \E g \in MergeGames : \E u \in EspnUpdates(g) : Save(<<u>>)

SaveCovers == \E g \in MergeGames : \E u \in CoversUpdates(g) : Save(<<u>>)

SavePlaceholder == \E g \in MergeGames : \E u \in PlaceholderUpdates(g, now) : Save(<<u>>)

NextMerge == SaveEspn \/ SaveCovers \/ SavePlaceholder

SpecMerge == InitMerge /\ [][NextMerge]_vars

-----------------------------------------------------------------------------
(* Selector driver: direct calls of should_fetch_betting, with the integer
   statuses of the Games table and with the strings the tests pass. *)

(* Kickoffs, in ticks: 3 days ahead, just over and exactly 2 days ahead,
   now, 2 days ago, just under, exactly and just over 7 days ago, 7.5, 8 and
   10 days ago. *)
Kickoffs ==
    {3 * TicksPerDay, 2 * TicksPerDay + 1, 2 * TicksPerDay, 0, -2 * TicksPerDay,
     -7 * TicksPerDay + 1, -7 * TicksPerDay, -7 * TicksPerDay - 1,
     -7 * TicksPerDay - TicksPerDay \div 2, -8 * TicksPerDay, -10 * TicksPerDay}

PyStatuses ==
    {PyInt(1), PyInt(2), PyInt(3), PyStr("Scheduled"), PyStr("Final")}

CallSelector ==
    /\ \E game_datetime \in Kickoffs, game_status \in PyStatuses :
        call' = [game_datetime |-> game_datetime, game_status |-> game_status,
                 now |-> now,
                 result |-> should_fetch_betting(game_datetime, game_status, now)]
    /\ UNCHANGED <<now, games, db, mapping, ledger, pc, run, stats, backfills, lastSave, sched>>

NextSelector == CallSelector \/ Tick

SpecSelector == InitMerge /\ [][NextSelector]_vars

-----------------------------------------------------------------------------
(* Ledger driver: runs that start when CoversAttempts already holds the
   attempt of an earlier run on the date of g2, made one tick less than, or
   exactly, 6 or 24 hours ago.  g1 is in the ESPN window, g2 was played
   eight days ago and is left to Covers. *)

LedgerGames ==
    [g1 |-> Game(-TicksPerDay, 3, "A", "B"),
     g2 |-> Game(-8 * TicksPerDay, 3, "C", "D")]

(* The hours for which _filter_failed_covers_dates drops a date after an
   attempt with that match_count. *)
Window(match_count) ==
    IF match_count > 0 THEN COVERS_HIT_HOURS * TicksPerHour
    ELSE COVERS_MISS_HOURS * TicksPerHour

(* What an earlier attempt on the date of g2 left behind: nothing matched
   and no row, or g2 matched with a total and no spread, which leaves its
   row unfinalized. *)
EarlierAttempt(match_count, t) ==
    [ledger |-> _record_covers_attempt(<< >>, DateOf(LedgerGames["g2"].date_time_utc),
                                       match_count, t),
     db |-> IF match_count = 0 THEN << >>
            ELSE save_betting_data(<< >>,
                    <<CoversData("g2", [spread |-> None, total |-> Some(1),
                                        spread_result |-> None,
                                        ou_result |-> Some("O")])>>, t)]

LedgerStarts ==
    {[ledger |-> << >>, db |-> << >>]}
    \cup {EarlierAttempt(m, k - Window(m)) : m \in {0, 1}, k \in {0, 1}}

InitLedger ==
    /\ now = 0
    /\ games = LedgerGames
    /\ \E start \in LedgerStarts : db = start.db /\ ledger = start.ledger
    /\ mapping = [g \in GameIds |-> None]
    /\ pc = "idle"
    /\ run = IdleRun
    /\ stats = ZeroStats
    /\ backfills = 0
    /\ lastSave = NoSave
    /\ call = NoCall
    /\ sched = NoSchedule

NextLedger ==
    \/ Tick \/ StartRun
    \/ EspnCached \/ EspnNoData \/ EspnError \/ EspnDone
    \/ CoversFetched \/ CoversError

SpecLedger == InitLedger /\ [][NextLedger]_vars

-----------------------------------------------------------------------------
(* Batch driver: runs whose ESPN batch holds two games, at one instant.
   g1 was played yesterday, g2 is about to start.  The table is empty, or
   holds for g1 the opening line an earlier run saved an hour ago, which
   the cache gate no longer covers. *)

BatchGames ==
    [g1 |-> Game(-TicksPerDay, 3, "A", "B"),
     g2 |-> Game(-1, 1, "C", "D")]

EarlierFetch ==
    save_betting_data(<< >>,
        <<[game_id |-> "g1", espn_event_id |-> Some("e1"), game_status |-> 3,
           lines_finalized |-> 0]
          @@ OptGroup("opening", RawLines(Some(1), None, None))>>,
        -(CACHE_HOURS * TicksPerHour))

InitBatch ==
    /\ now = 0
    /\ games = BatchGames
    /\ db \in {<< >>, EarlierFetch}
    /\ mapping = [g \in GameIds |-> IF g \in DOMAIN db THEN Some("e1") ELSE None]
    /\ ledger = << >>
    /\ pc = "idle"
    /\ run = IdleRun
    /\ stats = ZeroStats
    /\ backfills = 0
    /\ lastSave = NoSave
    /\ call = NoCall
    /\ sched = NoSchedule

NextBatch ==
    \/ StartRun
    \/ EspnCached \/ EspnFetched \/ EspnNoData \/ EspnError \/ EspnDone

SpecBatch == InitBatch /\ [][NextBatch]_vars

-----------------------------------------------------------------------------
(* Run driver: runs over both tiers at one instant, from empty tables, with
   every outcome of every fetch.  g1 is in the ESPN window, g2 is left to
   Covers.  A run in progress goes on by itself: each step of its loops is
   taken if it stays possible. *)

InitRun ==
    /\ now = 0
    /\ games = LedgerGames
    /\ db = << >>
    /\ mapping = [g \in GameIds |-> None]
    /\ ledger = << >>
    /\ pc = "idle"
    /\ run = IdleRun
    /\ stats = ZeroStats
    /\ backfills = 0
    /\ lastSave = NoSave
    /\ call = NoCall
    /\ sched = NoSchedule

RunStep ==
    \/ EspnCached \/ EspnFetched \/ EspnNoData \/ EspnError \/ EspnDone
    \/ CoversFetched \/ CoversError

NextRun == StartRun \/ RunStep

SpecRun == InitRun /\ [][NextRun]_vars

FairRun == SpecRun /\ WF_vars(RunStep)

-----------------------------------------------------------------------------
(* Two-run driver: two processes each call save_betting_data with one
   update for g1, on their own connections.  A statement of a connection
   is one step: the SELECT of the row, then the UPDATE or the INSERT the
   result of the SELECT chose, committed with it.  call holds the table at
   the start and, for each process, where it is, its update, what its
   SELECT found and whether its statement raised sqlite3.IntegrityError. *)

Runs == {"r1", "r2"}

RunUpdates(t) ==
    {u \in CoversUpdates("g1") :
        u.lines_finalized = 1 /\ u.covers_closing_spread \in {None, Some(1)}}
    \cup {u \in EspnUpdates("g1") :
            /\ u.game_status = 3 /\ u.lines_finalized = 1
            /\ "opening" \notin DOMAIN u
            /\ "current_or_closing" \in DOMAIN u
            /\ u["current_or_closing"]["spread"] = Some(1)}
    \cup PlaceholderUpdates("g1", t)

(* The table before the two calls: empty, or the row of an earlier
   placeholder. *)
StoredBefore ==
    {<< >>, save_betting_data(<< >>, <<[game_id |-> "g1", updated_at |-> IsoZ(0)]>>, 0)}

NotStarted == [at |-> "start", data |-> << >>, existing |-> FALSE, error |-> FALSE]

InitTwoRuns ==
    /\ now = 0
    /\ games = [g1 |-> Game(-TicksPerDay, 3, "A", "B"),
                g2 |-> Game(3 * TicksPerDay, 1, "C", "D")]
    /\ db \in StoredBefore
    /\ mapping = [g \in GameIds |-> None]
    /\ ledger = << >>
    /\ pc = "idle"
    /\ run = IdleRun
    /\ stats = ZeroStats
    /\ backfills = 0
    /\ lastSave = NoSave
    /\ call = [start |-> db, runs |-> [w \in Runs |-> NotStarted]]
    /\ sched = NoSchedule

(* SELECT lines_finalized FROM Betting WHERE game_id = ? *)
RunSelect(w) ==
    /\ call.runs[w].at = "start"
    /\ \E data \in RunUpdates(now) :
        call' = [call EXCEPT !.runs[w] =
                    [at |-> "selected", data |-> data,
                     existing |-> data["game_id"] \in DOMAIN db, error |-> FALSE]]
    /\ UNCHANGED <<now, games, db, mapping, ledger, pc, run, stats, backfills, lastSave, sched>>

(* if existing: UPDATE ... else: INSERT ...; game_id is the PRIMARY KEY of
   Betting, so the INSERT of a row that is there raises and writes nothing. *)
RunWrite(w) ==
    /\ call.runs[w].at = "selected"
    /\ LET r == call.runs[w]
           game_id == r.data["game_id"]
           fields == BuildFields(r.data, IsoZ(now))
       IN  IF r.existing
           THEN /\ db' = [db EXCEPT ![game_id] = UpdateRow(db[game_id], fields)]
                /\ call' = [call EXCEPT !.runs[w].at = "done"]
           ELSE IF game_id \in DOMAIN db
           THEN /\ db' = db
                /\ call' = [call EXCEPT !.runs[w].at = "done", !.runs[w].error = TRUE]
           ELSE /\ db' = (game_id :> InsertRow(game_id, fields, IsoZ(now))) @@ db
                /\ call' = [call EXCEPT !.runs[w].at = "done"]
    /\ UNCHANGED <<now, games, mapping, ledger, pc, run, stats, backfills, lastSave, sched>>

NextTwoRuns == \E w \in Runs : RunSelect(w) \/ RunWrite(w)

SpecTwoRuns == InitTwoRuns /\ [][NextTwoRuns]_vars

-----------------------------------------------------------------------------
(* Series driver: the same home and away team played on two days in a row,
   nine and eight days ago, so that both games are for the by-date tier. *)

SeriesGames ==
    [g1 |-> Game(-9 * TicksPerDay, 3, "A", "B"),
     g2 |-> Game(-8 * TicksPerDay, 3, "A", "B")]

InitSeries ==
    /\ now = 0
    /\ games = SeriesGames
    /\ db = << >>
    /\ mapping = [g \in GameIds |-> None]
    /\ ledger = << >>
    /\ pc = "idle"
    /\ run = IdleRun
    /\ stats = ZeroStats
    /\ backfills = 0
    /\ lastSave = NoSave
    /\ call = NoCall
    /\ sched = NoSchedule

NextSeries == StartRun \/ CoversFetched \/ CoversError

SpecSeries == InitSeries /\ [][NextSeries]_vars

(* Runs repeated for ever over the two games of the series, with Covers
   serving the matchup with a closing spread whenever a date is fetched. *)

(* A day or more passes between two runs.  The clock of the model is
   bounded, so the day is not added to now: every entry of CoversAttempts
   becomes as old as the longer of the two windows of
   _filter_failed_covers_dates, which is what the filter sees after a day.
   The games are older than the ESPN window and stay so. *)
DayPasses ==
    /\ pc = "idle"
    /\ \E d \in DOMAIN ledger :
        ledger[d].last_attempt_datetime > now - COVERS_HIT_HOURS * TicksPerHour
    /\ ledger' = [d \in DOMAIN ledger |->
                    [ledger[d] EXCEPT !.last_attempt_datetime =
                        now - COVERS_HIT_HOURS * TicksPerHour]]
    /\ UNCHANGED <<now, games, db, mapping, pc, run, stats, backfills, lastSave, call, sched>>

(* The fetch of a date whose page lists every game played on that date,
   each with a closing spread: _fetch_covers_batch for the date as in
   CoversFetched. *)
CoversServed ==
    /\ pc = "covers" /\ run.dates # << >>
    /\ LET date_str == Head(run.dates)
           played == {g \in GameIds : /\ games[g].status = 3
                                      /\ DateOf(games[g].date_time_utc) = date_str}
       IN  \E covers_games \in CoversPages(games, played), rows \in Orderings(GameIds) :
            LET batch == CoversBatch(games, rows, date_str, covers_games)
            IN  /\ Len(covers_games) = Cardinality(played)
                /\ \A i \in DOMAIN covers_games : covers_games[i].spread # None
                /\ db' = save_betting_data(db, batch, now)
                /\ ledger' = _record_covers_attempt(ledger, date_str, Len(batch), now)
                /\ stats' = [stats EXCEPT !.covers_fetched = @ + Len(batch),
                                          !.saved = @ + Len(batch)]
    /\ LeaveCovers([run EXCEPT !.dates = Tail(@)])
    /\ UNCHANGED <<now, games, mapping, backfills, lastSave, call, sched>>

(* update_betting_data(use_covers=True) with a date to fetch. *)
StartCoversRun == StartRun /\ pc' = "covers"

NextForever == StartRun \/ CoversServed \/ DayPasses

SpecForever == InitSeries /\ [][NextForever]_vars

FairForever ==
    /\ SpecForever
    /\ WF_vars(DayPasses) /\ WF_vars(StartCoversRun) /\ WF_vars(CoversServed)

-----------------------------------------------------------------------------
(* Team driver: runs over a catalog in which the completed game of eight
   days ago has a home team code that NBATeamConverter does not know; Covers
   publishes the game under the same codes. *)

TeamGames ==
    [g1 |-> Game(-TicksPerDay, 3, "A", "B"),
     g2 |-> Game(-8 * TicksPerDay, 3, "X", "D")]

InitTeams ==
    /\ now = 0
    /\ games = TeamGames
    /\ db = << >>
    /\ mapping = [g \in GameIds |-> None]
    /\ ledger = << >>
    /\ pc = "idle"
    /\ run = IdleRun
    /\ stats = ZeroStats
    /\ backfills = 0
    /\ lastSave = NoSave
    /\ call = NoCall
    /\ sched = NoSchedule

SpecTeams == InitTeams /\ [][NextRun]_vars

-----------------------------------------------------------------------------
(* schedule.py: update_schedule and save_schedule.  In the schedule driver
   games is the Games table as save_schedule writes it, game_id -> row with
   the columns date_time_utc, home_team, away_team, status, status_text,
   season, season_type; call is the last call made; sched holds the
   ScheduleCache table, season -> [last_update_datetime, schedule_finalized],
   and what determine_current_season returns.  A season is named by its
   first year; season 1 is followed by season 2. *)

Seasons == {1, 2}

SCHEDULE_CACHE_CURRENT_MINUTES == 5

MinutesPerTick == 60 \div TicksPerHour

(* The games the NBA API lists for a season. *)
ScheduleIds(season) == IF season = 1 THEN {"s1", "s2"} ELSE {"s3"}

(* A game dict as fetch_schedule builds it. *)
FetchedGame(game_id, season, status) ==
    [gameId |-> game_id, gameStatus |-> status,
     gameStatusText |-> IF status = 3 THEN "Final" ELSE "7:00 pm ET",
     gameDateTimeUTC |-> IsoZ(0), homeTeam |-> "A", awayTeam |-> "B",
     seasonType |-> "Regular Season", season |-> season]

(* fetch_schedule: the empty list when the request or the parsing failed,
   else the games listed, here one game, Scheduled or Final. *)
fetch_schedule(season) ==
    {<< >>} \cup
    {<<FetchedGame(g, season, status)>> : g \in ScheduleIds(season), status \in {1, 3}}

Without(game, key) == [k \in (DOMAIN game) \ {key} |-> game[k]]

(* Lists a caller may hand to save_schedule that fetch_schedule does not
   build: a game without gameId, a game without gameDateTimeUTC, a game of
   another season, each alone or after a good game. *)
BadLists(season) ==
    LET good == FetchedGame("s1", season, 3)
        bad == {Without(FetchedGame("s2", season, 3), "gameId"),
                Without(FetchedGame("s2", season, 3), "gameDateTimeUTC"),
                FetchedGame("s2", 3 - season, 3)}
    IN  {<<b>> : b \in bad} \cup {<<good, b>> : b \in bad}

GameRow(game) ==
    [date_time_utc |-> game["gameDateTimeUTC"],
     home_team |-> game["homeTeam"], away_team |-> game["awayTeam"],
     status |-> game["gameStatus"], status_text |-> game["gameStatusText"],
     season |-> game["season"], season_type |-> game["seasonType"]]

(* The transaction of save_schedule: DELETE the rows of the season that are
   not in the list, then INSERT ... ON CONFLICT DO UPDATE each game. *)
RECURSIVE Upsert(_, _)
Upsert(table, games_list) ==
    IF games_list = << >> THEN table
    ELSE LET game == Head(games_list)
         IN  Upsert((game["gameId"] :> GameRow(game))
                        @@ [g \in (DOMAIN table) \ {game["gameId"]} |-> table[g]],
                    Tail(games_list))

(* save_schedule: what it returns ("True", "False", or "KeyError" when it
   raises) and the Games table it leaves.  game_ids is built from
   game["gameId"] of every game before the list is checked. *)
save_schedule(table, games_list, season) ==
    IF games_list = << >> THEN [result |-> "False", Games |-> table]
    ELSE IF \E i \in DOMAIN games_list : "gameId" \notin DOMAIN games_list[i]
    THEN [result |-> "KeyError", Games |-> table]
    ELSE IF \E i \in DOMAIN games_list : "gameDateTimeUTC" \notin DOMAIN games_list[i]
    THEN [result |-> "False", Games |-> table]
    ELSE IF \E i \in DOMAIN games_list : games_list[i]["season"] # season
    THEN [result |-> "False", Games |-> table]
    ELSE LET game_ids == {games_list[i]["gameId"] : i \in DOMAIN games_list}
             kept == [g \in {h \in DOMAIN table :
                                ~(table[h].season = season /\ h \notin game_ids)} |-> table[g]]
         IN  [result |-> "True", Games |-> Upsert(kept, games_list)]

(* _should_update_schedule *)
_should_update_schedule(cache, season, current_season, t) ==
    IF season \notin DOMAIN cache THEN TRUE
    ELSE IF season # current_season /\ cache[season].schedule_finalized = 1 THEN FALSE
    ELSE IF season = current_season
    THEN (t - cache[season].last_update_datetime) * MinutesPerTick
            > SCHEDULE_CACHE_CURRENT_MINUTES
    ELSE TRUE

(* Variant: the flag is overwritten with the result of this check. *)
_update_schedule_cache_Overwrite(cache, table, season, current_season, t) ==
    LET should_finalize ==
            /\ season # current_season
            /\ \A g \in DOMAIN table :
                (table[g].season = season
                 /\ table[g].season_type \in {"Regular Season", "Post Season"})
                => table[g].status = 3
    IN  (season :> [last_update_datetime |-> t,
                    schedule_finalized |-> IF should_finalize THEN 1 ELSE 0]) @@ cache

(* _update_schedule_cache: a season other than the current one is finalized
   when none of its regular or post season games has a status other than 3;
   the upsert sets the flag to 1 or leaves it as it is. *)
_update_schedule_cache(cache, table, season, current_season, t) ==
    LET should_finalize ==
            /\ season # current_season
            /\ \A g \in DOMAIN table :
                (table[g].season = season
                 /\ table[g].season_type \in {"Regular Season", "Post Season"})
                => table[g].status = 3
    IN  (season :> [last_update_datetime |-> t,
                    schedule_finalized |->
                        IF should_finalize THEN 1
                        ELSE IF season \in DOMAIN cache
                        THEN cache[season].schedule_finalized ELSE 0]) @@ cache

NoScheduleCall ==
    [op |-> "none", season |-> 0, force |-> FALSE, games |-> << >>,
     fetched |-> FALSE, result |-> "none"]

InitSchedule ==
    /\ now = 0
    /\ games = << >>
    /\ db = << >>
    /\ mapping = [g \in GameIds |-> None]
    /\ ledger = << >>
    /\ pc = "idle"
    /\ run = IdleRun
    /\ stats = ZeroStats
    /\ backfills = 0
    /\ lastSave = NoSave
    /\ call = NoScheduleCall
    /\ sched = NoSchedule

(* update_schedule(season, force=force) *)
UpdateSchedule ==
    /\ \E season \in Seasons, force \in BOOLEAN :
        IF ~force /\ ~_should_update_schedule(sched.ScheduleCache, season,
                                              sched.current_season, now)
        THEN /\ call' = [op |-> "update_schedule", season |-> season, force |-> force,
                         games |-> << >>, fetched |-> FALSE, result |-> "cached"]
             /\ UNCHANGED <<games, sched>>
        ELSE \E fetched \in fetch_schedule(season) :
            LET saved == save_schedule(games, fetched, season)
            IN  /\ games' = saved.Games
                /\ sched' = IF saved.result = "True"
                            THEN [sched EXCEPT !.ScheduleCache =
                                    _update_schedule_cache(@, saved.Games, season,
                                                           sched.current_season, now)]
                            ELSE sched
                /\ call' = [op |-> "update_schedule", season |-> season, force |-> force,
                            games |-> fetched, fetched |-> TRUE, result |-> saved.result]
    /\ UNCHANGED <<now, db, mapping, ledger, pc, run, stats, backfills, lastSave>>

(* save_schedule(games, season) called on its own *)
CallSaveSchedule ==
    /\ \E season \in Seasons :
        \E games_list \in fetch_schedule(season) \cup BadLists(season) :
            LET saved == save_schedule(games, games_list, season)
            IN  /\ games' = saved.Games
                /\ call' = [op |-> "save_schedule", season |-> season, force |-> FALSE,
                            games |-> games_list, fetched |-> FALSE,
                            result |-> saved.result]
    /\ UNCHANGED <<now, db, mapping, ledger, pc, run, stats, backfills, lastSave, sched>>

(* determine_current_season returns the next season from now on. *)
NewSeason ==
    /\ sched.current_season = 1
    /\ sched' = [sched EXCEPT !.current_season = 2]
    /\ UNCHANGED <<now, games, db, mapping, ledger, pc, run, stats, backfills, lastSave, call>>

NextSchedule == Tick \/ NewSeason \/ UpdateSchedule \/ CallSaveSchedule

SpecSchedule == InitSchedule /\ [][NextSchedule]_vars

-----------------------------------------------------------------------------
(* Properties *)

Finalized(table, g) == g \in DOMAIN table /\ table[g]["lines_finalized"] = 1

(* The row of the merge driver's game. *)
Merged == "g1" \in DOMAIN db

(* C1: across any sequence of merges the stored lines_finalized of a record
   only goes from 0 to 1: a row that has the flag keeps it, whatever
   lines_finalized value the update carries. *)
C1_FinalizedMonotone ==
    [][\A g \in DOMAIN db :
            /\ g \in DOMAIN db'
            /\ db'[g]["lines_finalized"] \in {0, 1}
            /\ db'[g]["lines_finalized"] >= db[g]["lines_finalized"]]_vars

(* The driver merged an update carrying lines_finalized = 0, or a
   placeholder carrying none, into a row that is finalized. *)
C1_Witness ==
    /\ lastSave.kind # "none"
    /\ lastSave.lines_finalized = 0
    /\ Finalized(db, "g1")

(* C2: once a column of a stored row holds a non-null value, no merge of any
   format sets it back to null. *)
C2_NonNullKept ==
    [][\A g \in DOMAIN db :
            /\ g \in DOMAIN db'
            /\ \A c \in DataCols : db[g][c] # None => db'[g][c] # None]_vars

(* The driver merged a Covers update without a spread, or a placeholder
   naming no column at all, into a row that holds a Covers spread and an
   ESPN opening spread. *)
C2_Witness ==
    /\ lastSave.kind \in {"covers", "placeholder"}
    /\ ~lastSave.spread
    /\ Merged
    /\ db["g1"]["covers_closing_spread"] # None
    /\ db["g1"]["espn_opening_spread"] # None

(* C3: a non-null closing spread, of either tier, is never replaced by a
   later merge. *)
C3_ClosingSpreadWriteOnce ==
    [][\A g \in DOMAIN db :
        \A c \in {"espn_closing_spread", "covers_closing_spread"} :
            db[g][c] # None => (g \in DOMAIN db' /\ db'[g][c] = db[g][c])]_vars

(* C4: once a row has lines_finalized = 1, no write changes any of its
   closing columns. *)
C4_FinalizedClosingFrozen ==
    [][\A g \in DOMAIN db :
        db[g]["lines_finalized"] = 1 =>
            /\ g \in DOMAIN db'
            /\ \A c \in ClosingCols : db'[g][c] = db[g][c]]_vars

(* C5: a finalized row holds a closing spread or a closing total. *)
C5_FinalizedHasSpreadOrTotal ==
    \A g \in DOMAIN db :
        db[g]["lines_finalized"] = 1 =>
            \/ db[g]["espn_closing_spread"] # None
            \/ db[g]["espn_closing_total"] # None
            \/ db[g]["covers_closing_spread"] # None
            \/ db[g]["covers_closing_total"] # None

(* C6 as stated: the row of a Completed game that holds a closing spread or
   a closing total, of either tier, is finalized. *)
C6_ClosingLineFinalizes ==
    \A g \in DOMAIN db :
        (/\ games[g].status = 3
         /\ \/ db[g]["espn_closing_spread"] # None
            \/ db[g]["espn_closing_total"] # None
            \/ db[g]["covers_closing_spread"] # None
            \/ db[g]["covers_closing_total"] # None)
        => db[g]["lines_finalized"] = 1

(* C6 amended: the row of a Completed game that holds a closing spread of
   either tier, or a closing total of the primary tier, is finalized; the
   secondary tier's closing total alone does not finalize. *)
C6_ClosingSpreadFinalizes ==
    \A g \in DOMAIN db :
        (/\ games[g].status = 3
         /\ \/ db[g]["espn_closing_spread"] # None
            \/ db[g]["espn_closing_total"] # None
            \/ db[g]["covers_closing_spread"] # None)
        => db[g]["lines_finalized"] = 1

(* A secondary-tier merge left a Completed game with a closing spread and
   the flag. *)
C6_Witness ==
    \E g \in DOMAIN db :
        /\ games[g].status = 3
        /\ db[g]["covers_closing_spread"] # None
        /\ db[g]["espn_closing_spread"] = None
        /\ db[g]["lines_finalized"] = 1

(* C7: for every stored table the driver reaches, the empty one included,
   and every update of the three formats, handing save_betting_data the
   update it has just merged once more, at once or later, leaves every
   column of every row but updated_at as the first application left it. *)
SameButUpdatedAt(t1, t2) ==
    /\ DOMAIN t1 = DOMAIN t2
    /\ \A g \in DOMAIN t1 :
        \A c \in BETTING_SCHEMA \ {"updated_at"} : t1[g][c] = t2[g][c]

AppliedTwice(u) ==
    LET once == save_betting_data(db, <<u>>, now)
    IN  \A t \in {now, now + 1} :
            SameButUpdatedAt(save_betting_data(once, <<u>>, t), once)

C7_MergeIdempotent ==
    \A g \in MergeGames :
        /\ \A u \in EspnUpdates(g) : AppliedTwice(u)
        /\ \A u \in CoversUpdates(g) : AppliedTwice(u)
        /\ \A u \in PlaceholderUpdates(g, now) : AppliedTwice(u)

(* The updates are applied to a row that earlier merges of both tiers have
   filled and finalized, as well as to the missing row. *)
C7_Witness ==
    /\ Merged
    /\ db["g1"]["espn_closing_spread"] # None
    /\ db["g1"]["covers_closing_spread"] # None
    /\ db["g1"]["lines_finalized"] = 1

(* C8: no step of a run consults ESPN for a game whose row is finalized. *)
C8_NoFetchOnceFinalized ==
    [][\A g \in GameIds :
        Finalized(db, g) => (g \in run'.fetched => g \in run.fetched)]_vars

(* The moments and statuses the cache gate is asked about. *)
CheckTimes == 0..(MaxNow + CACHE_HOURS * TicksPerHour)
Statuses == {1, 2, 3}
BadStamp == <<0, "?">>
CacheView(row) == [c \in CacheCols |-> row[c]]

LIVE_CACHE_HOURS == 6

Age(row, t) == t - ParseIso(row["updated_at"])[1]

(* C11: for a game in progress the gate answers "use cache" until the row is
   LIVE_CACHE_HOURS old, and for a scheduled game until it is CACHE_HOURS
   old. *)
C11_LiveCachedSixHours ==
    \A g \in DOMAIN db : \A t \in CheckTimes :
        (ParseIso(db[g]["updated_at"]) # None /\ Age(db[g], t) >= 0) =>
            /\ games[g].status = 2 =>
                    (_should_use_cache(Some(CacheView(db[g])), 2, t)
                        <=> Age(db[g], t) < LIVE_CACHE_HOURS * TicksPerHour)
            /\ games[g].status = 1 =>
                    (_should_use_cache(Some(CacheView(db[g])), 1, t)
                        <=> Age(db[g], t) < CACHE_HOURS * TicksPerHour)

(* The data columns of a row, all null while the row is missing. *)
DataOf(table, g) ==
    [c \in DataCols |-> IF g \in DOMAIN table THEN table[g][c] ELSE None]

(* The data columns whose value the merge of u changes. *)
Written(u) ==
    LET before == DataOf(db, u["game_id"])
        after == DataOf(save_betting_data(db, <<u>>, now), u["game_id"])
    IN  {c \in DataCols : after[c] # before[c]}

(* The columns the format and the event status of u route it to. *)
Slots(u) ==
    IF IsEspn(u)
    THEN {"espn_event_id"}
         \cup (IF "opening" \in DOMAIN u THEN EspnCols("opening") ELSE {})
         \cup (IF "current_or_closing" \notin DOMAIN u THEN {}
               ELSE IF u["game_status"] = 3 THEN EspnCols("closing")
               ELSE EspnCols("current"))
    ELSE IF IsCovers(u) THEN CoversCols \cup ResultCols
    ELSE {}

(* C12: on every stored table the merge driver reaches, a merge changes no
   data column outside the slot its update is routed to: opening group to
   the opening slot, current-or-closing group to the current slot unless the
   status is Completed and then to the closing slot, a Covers update to the
   Covers closing slot and the result fields, a placeholder to nothing. *)
C12_SlotRouting ==
    \A g \in MergeGames :
        /\ \A u \in EspnUpdates(g) : Written(u) \subseteq Slots(u)
        /\ \A u \in CoversUpdates(g) : Written(u) \subseteq Slots(u)
        /\ \A u \in PlaceholderUpdates(g, now) : Written(u) \subseteq Slots(u)

(* Merges have filled the opening, the current and the closing slot of the
   primary tier and the closing slot of the secondary tier. *)
C12_Witness ==
    /\ Merged
    /\ db["g1"]["espn_opening_spread"] # None
    /\ db["g1"]["espn_current_spread"] # None
    /\ db["g1"]["espn_closing_spread"] # None
    /\ db["g1"]["covers_closing_spread"] # None

(* The non-null values the group of u carries for the columns of phase. *)
CarriedLines(u, key, phase) ==
    LET fields == PhaseFields(phase, u[key])
    IN  [c \in {d \in EspnCols(phase) : fields[d] # None} |-> fields[c]]

(* An opening spread 1 merged into the empty table, then a current spread 2
   while the game is Scheduled. *)
OpeningThenCurrent ==
    LET header == [game_id |-> "g1", espn_event_id |-> Some("e1"),
                   game_status |-> 1, lines_finalized |-> 0]
        first == header @@ OptGroup("opening", RawLines(Some(1), None, None))
        second == header @@ OptGroup("current_or_closing", RawLines(Some(2), None, None))
    IN  save_betting_data(<< >>, <<first, second>>, 0)["g1"]

(* C13: on every stored table the merge driver reaches, each non-null value
   an ESPN update carries for the opening slot, or for the current slot
   (status not Completed), is the stored value after the merge, whatever the
   slot held; and opening spread 1 followed by current spread 2 for a
   Scheduled game gives opening 1, current 2, every closing column null and
   lines_finalized = 0. *)
C13_OpeningCurrentOverwritten ==
    /\ \A g \in MergeGames : \A u \in EspnUpdates(g) :
        LET after == save_betting_data(db, <<u>>, now)[g]
            opening == IF "opening" \in DOMAIN u
                       THEN CarriedLines(u, "opening", "opening") ELSE << >>
            current == IF "current_or_closing" \in DOMAIN u /\ u["game_status"] # 3
                       THEN CarriedLines(u, "current_or_closing", "current") ELSE << >>
        IN  /\ \A c \in DOMAIN opening : after[c] = opening[c]
            /\ \A c \in DOMAIN current : after[c] = current[c]
    /\ OpeningThenCurrent["espn_opening_spread"] = Some(1)
    /\ OpeningThenCurrent["espn_current_spread"] = Some(2)
    /\ \A c \in ClosingCols : OpeningThenCurrent[c] = None
    /\ OpeningThenCurrent["lines_finalized"] = 0

(* The stored opening and current spreads differ from each other, so one of
   the two slots has taken a value after the other held its own, and the
   game is not finalized. *)
C13_Witness ==
    /\ Merged
    /\ db["g1"]["espn_opening_spread"] = Some(1)
    /\ db["g1"]["espn_current_spread"] = Some(2)
    /\ \A c \in ClosingCols : db["g1"][c] = None
    /\ db["g1"]["lines_finalized"] = 0

(* The placeholder waiting in the batch of the run for game g, if any. *)
BatchedPlaceholder(g) ==
    LET at == {i \in DOMAIN run.batch :
                  run.batch[i]["game_id"] = g /\ IsPlaceholder(run.batch[i])}
    IN  IF pc = "espn" /\ at # {} THEN Some(run.batch[CHOOSE i \in at : TRUE]) ELSE None

CreatedOnce ==
    \A g \in DOMAIN db' :
        IF g \in DOMAIN db THEN db'[g]["created_at"] = db[g]["created_at"]
        ELSE db'[g]["created_at"] = IsoZ(now)

(* C14 as stated: a step never changes the created_at of a stored row, a
   row it inserts has created_at = the time of the merge, and every row a
   step writes has updated_at = the time of the merge. *)
C14_StampedAtMergeTime ==
    [][/\ CreatedOnce
       /\ \A g \in DOMAIN db' :
            (g \notin DOMAIN db \/ db'[g] # db[g]) => db'[g]["updated_at"] = IsoZ(now)]_vars

(* C14 amended: created_at as above; a row written from a data update has
   updated_at = the time of the merge, and a row written from a placeholder
   has the updated_at the placeholder carries, which is the time its ESPN
   batch started. *)
C14_StampedOrCarried ==
    [][/\ CreatedOnce
       /\ \A g \in DOMAIN db' :
            (g \notin DOMAIN db \/ db'[g] # db[g]) =>
                LET placeholder == BatchedPlaceholder(g)
                IN  IF placeholder # None
                    THEN /\ db'[g]["updated_at"] = placeholder[1]["updated_at"]
                         /\ placeholder[1]["updated_at"] = IsoZ(run.now)
                    ELSE db'[g]["updated_at"] = IsoZ(now)]_vars

(* A row written from a placeholder whose batch started before the merge:
   its updated_at is earlier than its created_at. *)
C14_Witness ==
    \E g \in DOMAIN db :
        /\ ParseIso(db[g]["updated_at"]) # None
        /\ ParseIso(db[g]["created_at"]) # None
        /\ ParseIso(db[g]["updated_at"])[1] < ParseIso(db[g]["created_at"])[1]

(* C15: when _fetch_espn_batch saves its batch, every game for which it
   queued a placeholder has a row afterwards; a row the save created has
   every line and result column null and lines_finalized = 0, and a row
   that existed differs from what it was in updated_at at most. *)
C15_PlaceholderFrame ==
    [][(pc = "espn" /\ pc' # "espn") =>
        \A g \in GameIds :
            BatchedPlaceholder(g) # None =>
                /\ g \in DOMAIN db'
                /\ IF g \in DOMAIN db
                   THEN \A c \in BETTING_SCHEMA \ {"updated_at"} : db'[g][c] = db[g][c]
                   ELSE /\ \A c \in DataCols : db'[g][c] = None
                        /\ db'[g]["lines_finalized"] = 0]_vars

(* A row that a placeholder created and a placeholder of a later batch
   stamped again: no data, not finalized, updated after it was created. *)
C15_Witness ==
    \E g \in DOMAIN db :
        /\ \A c \in DataCols : db[g][c] = None
        /\ db[g]["lines_finalized"] = 0
        /\ ParseIso(db[g]["updated_at"]) # None
        /\ ParseIso(db[g]["created_at"]) # None
        /\ ParseIso(db[g]["updated_at"])[1] > ParseIso(db[g]["created_at"])[1]

(* The stored table after one batch, seen as what the claim speaks of: which
   events have a record, and whether the record of g is the one that was
   there, updated, or a new one. *)
OneRecord(before, after, g, u) ==
    LET fields == BuildFields(u, IsoZ(now))
    IN  /\ DOMAIN after = DOMAIN before \cup {g}
        /\ after[g]["game_id"] = g
        /\ IF g \in DOMAIN before
           THEN after[g] = UpdateRow(before[g], fields)
           ELSE after[g] = InsertRow(g, fields, IsoZ(now))
        /\ \A h \in DOMAIN before \ {g} : after[h] = before[h]

(* C16: on every stored table the merge driver reaches and for every update
   u of a game g, a batch holding u leaves exactly the records that were
   there plus one for g, which is the record of g updated if there was one
   and a new record otherwise; a batch holding u and then a placeholder for
   the same g gives the record of the first item updated by the second,
   never a second record, and no record is removed. *)
C16_OneRecordPerEvent ==
    \A g \in MergeGames : \A u \in AllUpdates(g, now) :
        LET one == save_betting_data(db, <<u>>, now)
        IN  /\ OneRecord(db, one, g, u)
            /\ \A v \in PlaceholderUpdates(g, now) :
                OneRecord(one, save_betting_data(db, <<u, v>>, now), g, v)

(* The record of g1 has taken a second write: it holds an opening line and
   a closing line, which no single update carries together with a Covers
   line. *)
C16_Witness ==
    /\ DOMAIN db = {"g1"}
    /\ db["g1"]["espn_opening_spread"] # None
    /\ db["g1"]["covers_closing_total"] # None
    /\ lastSave.kind = "placeholder"

(* D = kickoff - now of the last call, in ticks, and the two limits. *)
CallD == call.game_datetime - call.now
TooFar == CallD > FUTURE_CUTOFF_DAYS * TicksPerDay
TooOld == CallD < -(ESPN_LOOKBACK_DAYS * TicksPerDay)

(* C17: for the statuses 1, 2, 3 should_fetch_betting answers by the table
   read in order: too_far_future when D > 2 days, too_old when Completed
   and D < -7 days, espn when Live or Completed or D >= -7 days, skip
   otherwise; skip is answered exactly for a Scheduled game with D < -7
   days, and a Live game that is not too far ahead is eligible however old
   it is. *)
C17_DecisionTable ==
    (call # NoCall /\ call.game_status \in {PyInt(1), PyInt(2), PyInt(3)}) =>
        LET status == call.game_status[2]
        IN  /\ call.result =
                   IF TooFar THEN <<FALSE, "too_far_future">>
                   ELSE IF status = 3 /\ TooOld THEN <<FALSE, "too_old">>
                   ELSE IF status \in {2, 3} \/ ~TooOld THEN <<TRUE, "espn">>
                   ELSE <<FALSE, "skip">>
            /\ call.result = <<FALSE, "skip">> <=> (status = 1 /\ TooOld)
            /\ (status = 2 /\ TooOld) => call.result = <<TRUE, "espn">>

(* A Live game ten days old was found eligible. *)
C17_Witness ==
    /\ call.game_status = PyInt(2)
    /\ CallD <= -10 * TicksPerDay
    /\ call.result = <<TRUE, "espn">>

(* C18: called with game_status = "Final", should_fetch_betting answers
   (False, too_old) for every game that started more than 7 days before
   now, and (True, espn) for a game that started 2 days ago. *)
C18_FinalStringTooOld ==
    call.game_status = PyStr("Final") =>
        /\ TooOld => call.result = <<FALSE, "too_old">>
        /\ CallD = -2 * TicksPerDay => call.result = <<TRUE, "espn">>

Range(seq) == {seq[i] : i \in DOMAIN seq}

(* C19: when a run with use_covers starts, every game that is Completed,
   started more than 7 days before now and has no finalized row has its
   date among covers_dates_needed and is not in espn_games. *)
C19_OldCompletedToCovers ==
    [][(pc = "idle" /\ pc' # "idle" /\ run'.use_covers) =>
        \A g \in GameIds :
            (/\ games[g].status = 3
             /\ games[g].date_time_utc - now < -(ESPN_LOOKBACK_DAYS * TicksPerDay)
             /\ ~Finalized(db, g)) =>
                /\ DateOf(games[g].date_time_utc) \in run'.covers_dates
                /\ g \notin Range(run'.queue)]_vars

(* C20: a game whose kickoff is more than 2 days after now has no row, no
   ESPN event id was looked up for it, and no run has consulted ESPN for
   it or holds it in its queue or batch. *)
C20_FarFutureUntouched ==
    \A g \in GameIds :
        games[g].date_time_utc - now > FUTURE_CUTOFF_DAYS * TicksPerDay =>
            /\ g \notin DOMAIN db
            /\ mapping[g] = None
            /\ g \notin run.fetched
            /\ g \notin Range(run.queue)
            /\ \A i \in DOMAIN run.batch : run.batch[i]["game_id"] # g

(* A run over all game ids, the far game among them, has saved a row for
   g1 and is visiting Covers or is done, and g2 is still more than 2 days
   ahead. *)
C20_Witness ==
    /\ games["g2"].date_time_utc - now > FUTURE_CUTOFF_DAYS * TicksPerDay
    /\ "g1" \in DOMAIN db
    /\ "g2" \notin DOMAIN db
    /\ stats.saved > 0

(* The date is let through by the ledger at time t: it has no entry, or its
   last attempt is 6 hours old (no match) or 24 hours old (a match). *)
Due(d, t) ==
    \/ d \notin DOMAIN ledger
    \/ t - ledger[d].last_attempt_datetime >= Window(ledger[d].match_count)

(* C21 as stated: a date that a run fetches from Covers has no ledger
   entry, or its last attempt was 6 hours (no match) or 24 hours (a match)
   or more before the run started. *)
C21_SkippedByRunStart ==
    [][(pc = "covers" /\ now' = now) => Due(Head(run.dates), run.now)]_vars

(* C21 amended: the dates a run visits on Covers are exactly the needed
   dates that have no ledger entry or whose last attempt is 6 hours (no
   match) or 24 hours (a match) old when the run reaches the Covers tier;
   when a run ends after its ESPN batch without visiting Covers, no needed
   date was due at that time; and every visit is recorded in the ledger
   with the time of the visit. *)
C21_SkippedAtGate ==
    [][/\ (pc # "covers" /\ pc' = "covers") =>
            Range(run'.dates) = {d \in run'.covers_dates : Due(d, now)}
       /\ (pc = "espn" /\ pc' = "idle") =>
            \A d \in run.covers_dates : ~Due(d, now)
       /\ (pc = "covers" /\ now' = now) =>
            /\ Due(Head(run.dates), now)
            /\ ledger'[Head(run.dates)].last_attempt_datetime = now]_vars

(* A run that started before the window of the date ended has reached the
   Covers tier after it ended and is about to fetch the date again. *)
C21_Witness ==
    /\ pc = "covers" /\ run.dates # << >>
    /\ Head(run.dates) \in DOMAIN ledger
    /\ Due(Head(run.dates), now)
    /\ ~Due(Head(run.dates), run.now)

(* The games the ESPN batch has counted so far. *)
Tally(r) == r.espn_stats.fetched + r.espn_stats.skipped + r.espn_stats.errors

BatchIds(r) == {r.batch[i]["game_id"] : i \in DOMAIN r.batch}

(* The games of the batch whose fetch raised: consulted, nothing queued. *)
Failed(r) == r.fetched \ BatchIds(r)

(* C22: in the ESPN batch, a step that counts an error counts exactly one,
   writes nothing and keeps what the batch has queued; every step of the
   loop takes one game off the games to visit and counts it once, so the
   games after a failing one are still visited; and when the batch ends its
   errors are added to the errors of the run, every queued result has its
   row, and the row of each failing game is what it was (absent if it was
   absent). *)
C22_ErrorIsolated ==
    [][/\ (pc = "espn" /\ pc' = "espn") =>
            /\ Len(run'.queue) = Len(run.queue) - 1
            /\ Tally(run') = Tally(run) + 1
            /\ run'.espn_stats.errors # run.espn_stats.errors =>
                /\ run'.espn_stats.errors = run.espn_stats.errors + 1
                /\ run'.batch = run.batch
                /\ db' = db
       /\ (pc = "espn" /\ pc' # "espn") =>
            /\ run.queue = << >>
            /\ stats'.errors = stats.errors + run.espn_stats.errors
            /\ \A i \in DOMAIN run.batch :
                /\ run.batch[i]["game_id"] \in DOMAIN db'
                /\ IsEspn(run.batch[i]) =>
                    /\ db'[run.batch[i]["game_id"]]["espn_event_id"]
                            = run.batch[i]["espn_event_id"]
                    /\ db'[run.batch[i]["game_id"]]["updated_at"] = IsoZ(now)
            /\ \A g \in Failed(run) :
                IF g \in DOMAIN db THEN g \in DOMAIN db' /\ db'[g] = db[g]
                ELSE g \notin DOMAIN db']_vars

(* A run is over in which the fetch of g1 raised and that of g2 gave lines:
   one error, one result saved, the row of g1 as the earlier run left it. *)
C22_Witness ==
    /\ pc = "idle"
    /\ stats.errors = 1 /\ stats.espn_fetched = 1 /\ stats.saved = 1
    /\ "g1" \in DOMAIN db /\ db["g1"] = EarlierFetch["g1"]
    /\ "g2" \in DOMAIN db /\ db["g2"]["espn_event_id"] # None

(* C23: when a run is over, its errors statistic is at least the number of
   games and dates whose request failed with a transport error. *)
C23_TransportErrorsCounted ==
    pc = "idle" => stats.errors >= stats.transport

NoDuplicates(seq) == \A i, j \in DOMAIN seq : seq[i] = seq[j] => i = j

(* C24: a run that has started comes back to the caller, whatever the
   fetches give; and while it is under way no game and no date is twice
   among those it still has to visit, and no game it has consulted ESPN for
   is still to visit, so that each is attempted once at most. *)
C24_RunTerminates ==
    /\ [](/\ NoDuplicates(run.queue)
          /\ NoDuplicates(run.dates)
          /\ Range(run.queue) \cap run.fetched = {})
    /\ (pc # "idle") ~> (pc = "idle")

(* A run is over that found lines for g1 on ESPN and for g2 on Covers. *)
C24_Witness ==
    /\ pc = "idle"
    /\ stats.espn_fetched = 1 /\ stats.covers_fetched = 1 /\ stats.saved = 2
    /\ DOMAIN db = {"g1", "g2"}

(* C25: the games an ESPN batch still has to visit are in ascending order
   of kickoff, whatever selected the candidates. *)
C25_AscendingKickoff ==
    pc = "espn" =>
        \A i, j \in DOMAIN run.queue :
            i < j => games[run.queue[i]].date_time_utc <= games[run.queue[j]].date_time_utc

(* Every request of the trace comes right after a sleep. *)
Delayed(trace) ==
    \A i \in DOMAIN trace : trace[i] = "get" => (i > 1 /\ trace[i - 1] = "sleep")

FetchingEspn == pc = "espn" /\ run.queue # << >> /\ ~UsesCache(Head(run.queue))
FetchingCovers == pc = "covers" /\ run.dates # << >>

(* C26 as stated: whatever the run fetches next, from ESPN for a game or
   from Covers for a date, each request it sends comes after a sleep. *)
C26_EveryCallDelayed ==
    /\ FetchingEspn =>
        \A trace \in EspnRequests(mapping, games[Head(run.queue)], Head(run.queue), now) :
            Delayed(trace)
    /\ FetchingCovers => Delayed(MatchupsRequest(REQUEST_DELAY_SECONDS))

(* C26 amended: the request the run sends to Covers for a date comes after
   a sleep, and the requests it sends to ESPN for a game come with no sleep
   at all. *)
C26_CoversCallsDelayed ==
    /\ FetchingCovers => Delayed(MatchupsRequest(REQUEST_DELAY_SECONDS))
    /\ FetchingEspn =>
        \A trace \in EspnRequests(mapping, games[Head(run.queue)], Head(run.queue), now) :
            "sleep" \notin Range(trace)

(* The run has fetched a game from ESPN and is about to fetch a date from
   Covers. *)
C26_Witness ==
    /\ FetchingCovers
    /\ stats.espn_fetched = 1

(* The event ids the scoreboard may give for a game at a later time. *)
UpstreamIds == EspnIds \cup {"e2"}

(* C27: once ESPNGameMapping holds an id for a game, no step changes or
   removes it, a lookup returns it and leaves the table as it is whatever
   the scoreboard would answer, and a fetch for the game sends the summary
   request at most, no scoreboard request. *)
C27_MappingWriteOnce ==
    [][\A g \in GameIds :
        mapping[g] # None =>
            /\ mapping'[g] = mapping[g]
            /\ \A found \in {None} \cup {Some(e) : e \in UpstreamIds} :
                get_espn_event_id(mapping, g, found) = [id |-> mapping[g], map |-> mapping]
            /\ \A trace \in EspnRequests(mapping, games[g], g, now) : Len(trace) <= 1]_vars

(* The row of g1, created by an earlier run that stored the mapping, was
   written again from a fetch of this run, which looked the id up. *)
C27_Witness ==
    /\ mapping["g1"] # None
    /\ "g1" \in DOMAIN db
    /\ db["g1"]["created_at"] # IsoZ(now)
    /\ db["g1"]["updated_at"] = IsoZ(now)
    /\ db["g1"]["espn_event_id"] = mapping["g1"]

(* The games of the catalog with a team code the converter does not know. *)
UnknownCoded ==
    {g \in GameIds : get_abbreviation(games[g].home_team) = None
                       \/ get_abbreviation(games[g].away_team) = None}

C29_ForceRefetchesFinalized ==
    [][(/\ pc = "espn"
        /\ ~run.skip_finalized
        /\ run.queue # << >>
        /\ Head(run.queue) \in ExistingFinalized(db, TRUE))
       => run'.espn_stats.cached = run.espn_stats.cached]_vars

(* The table after the two updates were saved one after the other. *)
Serial(first, second) ==
    SaveOne(SaveOne(call.start, call.runs[first].data, IsoZ(now)),
            call.runs[second].data, IsoZ(now))

(* C30: when two runs have both saved an update for the same game, with
   their statements interleaved in any way, neither statement raised and the
   row is the one that saving the two updates in one of the two orders
   leaves. *)
C30_UpsertAtomic ==
    (\A w \in Runs : call.runs[w].at = "done") =>
        /\ \A w \in Runs : ~call.runs[w].error
        /\ db \in {Serial("r1", "r2"), Serial("r2", "r1")}

(* C31: get_betting_data returns None for a game that was never written,
   and after a merge for a game it returns the row that this merge, of an
   update of the format saved, made of the row stored before it. *)
C31_ReadsLastMerge ==
    [][/\ get_betting_data(db', "g2") = None
       /\ \E u \in AllUpdates("g1", now) :
            /\ Carried(u) = lastSave'
            /\ get_betting_data(db', "g1") = Some(SaveOne(db, u, IsoZ(now))["g1"])]_vars

(* A row that was merged into more than once is read back. *)
C31_Witness ==
    /\ get_betting_data(db, "g1") # None
    /\ get_betting_data(db, "g1")[1]["covers_closing_spread"] # None
    /\ get_betting_data(db, "g1")[1]["espn_closing_spread"] # None
    /\ get_betting_data(db, "g2") = None

(* C32: the dict get_betting_data returns for a stored game has the keys
   spread, total and source. *)
C32_SpreadTotalSource ==
    \A g \in DOMAIN db :
        {"spread", "total", "source"} \subseteq DOMAIN get_betting_data(db, g)[1]

SameTeamsOn(g, date_str) ==
    {h \in GameIds :
        /\ DateOf(games[h].date_time_utc) = date_str
        /\ NormalizePair(games[h].home_team, games[h].away_team)
              = NormalizePair(games[g].home_team, games[g].away_team)}

(* C34: when the by-date tier has fetched date D, a game of another date is
   written only if no game of the same teams was played on D itself. *)
C34_ExactDateFirst ==
    [][pc = "covers" =>
        \A g \in DOMAIN db' :
            (/\ g \notin DOMAIN db \/ db'[g] # db[g]
             /\ DateOf(games[g].date_time_utc) # Head(run.dates))
            => SameTeamsOn(g, Head(run.dates)) = {}]_vars

(* C35: a step of the Covers loop leaves for its date the one entry with the
   time of the attempt and, as match_count, the number of games it added to
   covers_fetched, 0 if it counted an error; the entries of the other dates
   stay; and no other step of a run touches CoversAttempts. *)
C35_AttemptRecorded ==
    [][IF pc = "covers" /\ now' = now
       THEN LET date_str == Head(run.dates)
            IN  /\ DOMAIN ledger' = DOMAIN ledger \cup {date_str}
                /\ \A d \in DOMAIN ledger \ {date_str} : ledger'[d] = ledger[d]
                /\ ledger'[date_str] =
                      [last_attempt_datetime |-> now,
                       match_count |-> IF stats'.errors > stats.errors THEN 0
                                       ELSE stats'.covers_fetched - stats.covers_fetched]
       ELSE ledger' = ledger]_vars

(* The entry of an earlier attempt that had matched g2 was replaced by the
   entry of an attempt of this run that matched nothing. *)
C35_Witness ==
    /\ "g2" \in DOMAIN db
    /\ ParseIso(db["g2"]["created_at"])[1] < 0
    /\ LET date_str == DateOf(games["g2"].date_time_utc)
       IN  /\ date_str \in DOMAIN ledger
           /\ ledger[date_str].last_attempt_datetime >= 0
           /\ ledger[date_str].match_count = 0

(* C36: the ESPN batch starts with all counters at zero; every step of its
   loop moves one game from the games to visit into exactly one of fetched,
   skipped and errors, so that at the end the three add up to the number of
   games of the batch; cached never exceeds skipped; what was saved and what
   waits in betting_data_batch is fetched + skipped - cached; and the stats
   the run reports after the batch satisfy
   saved = espn_fetched + skipped - cached. *)
C36_EveryEventCountedOnce ==
    [][/\ (pc = "idle" /\ pc' = "espn") =>
            /\ run'.espn_stats = ZeroEspnStats
            /\ run'.batch = << >>
       /\ (pc = "espn" /\ pc' = "espn") =>
            /\ Tally(run') + Len(run'.queue) = Tally(run) + Len(run.queue)
            /\ Len(run'.queue) = Len(run.queue) - 1
            /\ run'.espn_stats.cached <= run'.espn_stats.skipped
            /\ run'.espn_stats.saved + Len(run'.batch)
                  = run'.espn_stats.fetched + run'.espn_stats.skipped
                    - run'.espn_stats.cached
       /\ (pc = "espn" /\ pc' # "espn") =>
            /\ run.queue = << >>
            /\ stats'.espn_fetched + stats'.skipped + stats'.errors = Tally(run)
            /\ stats'.cached <= stats'.skipped
            /\ stats'.saved = stats'.espn_fetched + stats'.skipped - stats'.cached]_vars

(* A run whose batch of two held a cached game and a game without data has
   ended: two skipped, one of them cached, one placeholder saved. *)
C36_Witness ==
    /\ pc = "idle"
    /\ stats.cached = 1
    /\ stats.skipped = 2
    /\ stats.saved = 1
    /\ stats.errors = 0

(* What the tier selector answers for game g at time t. *)
SelectorSays(g, t) ==
    should_fetch_betting(games[g].date_time_utc, PyInt(games[g].status), t)

(* C37: every game a run holds in its ESPN list is one for which
   should_fetch_betting answers (True, espn) at the time the run was
   partitioned, and no placeholder waits in betting_data_batch for a game
   the selector judges too_old or skip at that time. *)
C37_PartitionAgreesWithSelector ==
    pc = "espn" =>
        /\ \A g \in Range(run.queue) : SelectorSays(g, run.now) = <<TRUE, "espn">>
        /\ \A i \in DOMAIN run.batch :
              IsPlaceholder(run.batch[i]) =>
                SelectorSays(run.batch[i]["game_id"], run.now)[2] \notin {"too_old", "skip"}

(* C38: every Completed game eventually has a row with lines_finalized = 1
   and a closing spread. *)
C38_EventuallyFinalized ==
    <>(\A g \in GameIds :
        games[g].status = 3 => (Finalized(db, g) /\ HasClosingSpread(db[g])))

(* The schedule_finalized flag of a season in a ScheduleCache table, 0 when
   the season has no entry. *)
FinalizedFlag(cache, season) ==
    IF season \in DOMAIN cache THEN cache[season].schedule_finalized ELSE 0

(* The step is a call of op: neither the clock nor the current season moves
   and call holds the call just made. *)
Called(op) ==
    /\ now' = now
    /\ sched'.current_season = sched.current_season
    /\ call'.op = op

(* C39: the schedule_finalized flag of a season never goes from 1 back to 0,
   and update_schedule without force on a season before the current one
   whose flag is 1 fetches nothing and writes nothing, neither to Games nor
   to ScheduleCache. *)
C39_FinalizedIsTerminal ==
    [][/\ \A season \in Seasons :
            FinalizedFlag(sched.ScheduleCache, season) = 1
                => FinalizedFlag(sched'.ScheduleCache, season) = 1
       /\ (/\ Called("update_schedule")
           /\ ~call'.force
           /\ call'.season < sched.current_season
           /\ FinalizedFlag(sched.ScheduleCache, call'.season) = 1)
          => (~call'.fetched /\ games' = games /\ sched' = sched)]_vars

(* An update without force has just been answered from the cache for a
   finalized season of the past, at a time after its last update, while
   Games holds a game of that season that is not Final. *)
C39_Witness ==
    /\ call.op = "update_schedule"
    /\ ~call.force
    /\ call.result = "cached"
    /\ call.season < sched.current_season
    /\ FinalizedFlag(sched.ScheduleCache, call.season) = 1
    /\ now > sched.ScheduleCache[call.season].last_update_datetime
    /\ \E g \in DOMAIN games : games[g].season = call.season /\ games[g].status # 3

(* The list fails one of the checks of save_schedule. *)
Rejected(games_list, season) ==
    \/ games_list = << >>
    \/ \E i \in DOMAIN games_list :
          \/ "gameId" \notin DOMAIN games_list[i]
          \/ "gameDateTimeUTC" \notin DOMAIN games_list[i]
          \/ games_list[i]["season"] # season

(* C40: when save_schedule is handed an empty list, a list with a game that
   lacks gameId or gameDateTimeUTC, or a list with a game of another season,
   it returns False, Games is unchanged and the ScheduleCache entry is not
   refreshed. *)
C40_ValidatesBeforeWrite ==
    [][((Called("save_schedule") \/ (Called("update_schedule") /\ call'.fetched))
        /\ Rejected(call'.games, call'.season))
          => (call'.result = "False" /\ games' = games /\ sched' = sched)]_vars

====
